---- MODULE Spec2Model ----
(***************************************************************************)
(* Model of the coharvest-bid-pool contract: rounds, slot pools, the bid   *)
(* ledger, the allocation pass of FinalizeBiddingRoundResult and the paged *)
(* settlement of Distribute.                                               *)
(*                                                                         *)
(* Amounts are Uint128 values (naturals).  A Decimal is held as its number *)
(* of atomic units, DECIMAL_FRACTIONAL units making 1; the contract's      *)
(* library uses 18 decimal places, the model DECIMAL_PLACES of them, with  *)
(* the same truncating arithmetic.                                         *)
(***************************************************************************)
EXTENDS Integers, Sequences, FiniteSets, TLC

VARIABLES
    now,                \* env.block.time.seconds()
    config,             \* CONFIG
    last_round_id,      \* LAST_ROUND_ID
    bidding_info,       \* BIDDING_INFO : round -> BiddingInfo
    distribution_info,  \* DISTRIBUTION_INFO : round -> DistributionInfo
    bid_pool,           \* BID_POOL : <<round, slot>> -> BidPool
    bid,                \* BID : idx -> Bid
    bid_idx,            \* BID_IDX (0 while the item is not stored)
    bids_by_round,      \* BIDS_BY_ROUND : set of <<round, idx>> keys
    bids_by_user,       \* BIDS_BY_USER : <<round, addr>> -> sequence of idx
    calc,               \* a direct call of process_calc_distribution_amount:
                        \* its arguments and, once it returned, its outcome
    pager               \* a caller paging through read_bids_by_round: the
                        \* index it reads, its cursor and the pages it got

vars == <<now, config, last_round_id, bidding_info, distribution_info, bid_pool,
          bid, bid_idx, bids_by_round, bids_by_user, calc, pager>>

store == <<config, last_round_id, bidding_info, distribution_info, bid_pool,
           bid, bid_idx, bids_by_round, bids_by_user>>

----------------------------------------------------------------------------
(* Bounds of the model *)

MaxTime == 2
MaxRounds == 2
MaxBids == 3
MaxSlot == 2
CalcSlots == 3
DECIMAL_PLACES == 3

\* bits of a Uint128 kept by the model (the contract's have 128)
UintBits == 20

\* bytes of a u64 key kept by the model (the contract's keys have 8)
KeyBytes == 2

(* Program constants *)

MAX_LIMIT == 1000
DEFAULT_LIMIT == 30

\* the number of values of a u8
BYTE == 256

\* an absent optional argument (Option::None)
None == 0 - 1

\* a call that succeeded
Ok == "Ok"

OWNER == "owner"
Senders == {OWNER, "addr000"}
Bidders == {"addr000"}
ORAIX == [kind |-> "Token", id |-> "oraix"]
USDC == [kind |-> "Token", id |-> "usdc"]

----------------------------------------------------------------------------
(* Decimal and Uint128 arithmetic *)

DECIMAL_FRACTIONAL == 10 ^ DECIMAL_PLACES

\* Uint128::MAX, which is also the largest number of atomics of a Decimal;
\* the integers are UintBits wide instead of 128
Uint128Max == 2 ^ UintBits - 1

\* faulty variant: a result that does not fit is let through
Overflow_Never(x) == FALSE

\* the operators +, * and += of Uint128 and Decimal, and Decimal::from_ratio,
\* panic on a result that does not fit
Overflow(x) == x > Uint128Max

DecimalZero == 0
DecimalOne == DECIMAL_FRACTIONAL

\* Decimal::from_ratio(numerator, denominator); panics when denominator = 0,
\* which every caller below rules out before using it.
DecimalFromRatio(numerator, denominator) ==
    (numerator * DECIMAL_FRACTIONAL) \div denominator

\* Decimal::from_atomics(value, 0)
DecimalFromAtomics0(value) == value * DECIMAL_FRACTIONAL

\* Decimal * Decimal
DecimalMul(a, b) == (a * b) \div DECIMAL_FRACTIONAL

\* Uint128 * Decimal (and Decimal * Uint128): floor of the exact product
Uint128MulDecimal(u, d) ==
    IF u = 0 \/ d = 0 THEN 0 ELSE (u * d) \div DECIMAL_FRACTIONAL

\* a decimal given as a fraction, for the inputs of the model
Dec(n, d) == (n * DECIMAL_FRACTIONAL) \div d

----------------------------------------------------------------------------
(* Inputs of the calls *)

Rounds == 1..MaxRounds
Slots == 0..MaxSlot
Amounts == {5, 10}
Distributions == {17}
ExchangeRates == {Dec(0, 1), Dec(1, 2), Dec(1, 1)}
MaxSlots == {MaxSlot - 1, MaxSlot}
Backs == {0, 1}
CalcTotals == {0, 10, 25, 1500}
CalcBudgets == {0, 1, 2, 11, 17, 40, 12000}
\* a Decimal holds at most Uint128Max atomics
CalcRates ==
    {d \in
          {Dec(0, 1), Dec(1, 1000), Dec(1, 2), Dec(1, 1), Dec(2, 1),
           Dec(800, 1), Dec(1000, 1)} :
        d <= Uint128Max}
Durations == {0, 1}
Cursors == {None} \cup (1..(MaxBids - 1))
Limits == {None, 1}

----------------------------------------------------------------------------
(* state.rs *)

Min(a, b) == IF a <= b THEN a ELSE b

\* the premium rate of a slot pool created under the current configuration
SlotPremiumRate(cfg, slot) ==
    DecimalMul(cfg.premium_rate_per_slot, DecimalFromAtomics0(slot))

NewBidPool(cfg, slot) ==
    [slot |-> slot,
     total_bid_amount |-> 0,
     premium_rate |-> SlotPremiumRate(cfg, slot),
     index_snapshot |-> DecimalZero,
     received_per_token |-> DecimalZero]

\* BID_POOL.save(storage, key, pool)
SavePool(pools, key, pool) ==
    [k \in (DOMAIN pools) \cup {key} |-> IF k = key THEN pool ELSE pools[k]]

\* faulty variant: the stored pool is not read
read_or_create_bid_pool_AlwaysNew(pools, cfg, round, premium_slot) ==
    NewBidPool(cfg, premium_slot)

\* read_or_create_bid_pool: the stored pool, or a new one that is stored
read_or_create_bid_pool(pools, cfg, round, premium_slot) ==
    IF <<round, premium_slot>> \in DOMAIN pools
    THEN pools[<<round, premium_slot>>]
    ELSE NewBidPool(cfg, premium_slot)

\* BiddingInfo::read_all_bid_pool: one pool per slot 1..=max_slot, in slot order
read_all_bid_pool(pools, cfg, round) ==
    [slot \in 1..cfg.max_slot |->
        IF <<round, slot>> \in DOMAIN pools
        THEN pools[<<round, slot>>]
        ELSE NewBidPool(cfg, slot)]

\* faulty variant: the counter starts from the default 0
pop_bid_idx_FromZero(idx) == idx

\* pop_bid_idx: the stored counter, or 1 when nothing is stored yet
pop_bid_idx(idx) == IF idx = 0 THEN 1 ELSE idx

\* the ids recorded under the prefix `round` of BIDS_BY_ROUND
RoundIds(byRound, round) == {k[2] : k \in {p \in byRound : p[1] = round}}

RECURSIVE SortAsc(_)
SortAsc(S) ==
    IF S = {} THEN <<>>
    ELSE LET m == CHOOSE x \in S : \A y \in S : x <= y
         IN <<m>> \o SortAsc(S \ {m})

Reverse(s) == [i \in 1..Len(s) |-> s[Len(s) + 1 - i]]

Take(s, n) == SubSeq(s, 1, Min(n, Len(s)))

\* u64::to_be_bytes, on KeyBytes bytes: most significant byte first
to_be_bytes(n) ==
    [i \in 1..KeyBytes |-> (n \div (BYTE ^ (KeyBytes - i))) % BYTE]

\* the storage key of a u64 key part: its big-endian bytes
U64Key(n) == to_be_bytes(n)

\* byte strings in the order of the storage: a < b
LexLess(a, b) ==
    \E k \in 1..(Min(Len(a), Len(b)) + 1) :
        /\ \A j \in 1..(k - 1) : a[j] = b[j]
        /\ IF k <= Len(a) /\ k <= Len(b)
           THEN a[k] < b[k]
           ELSE k > Len(a) /\ k <= Len(b)

\* faulty variant: the cursor is encoded least significant byte first
calc_range_start_LittleEndian(start_after) ==
    IF start_after = None
    THEN [some |-> FALSE]
    ELSE [some |-> TRUE,
          v |-> Reverse(to_be_bytes(start_after)) \o <<0>>]

\* calc_range_start: the first key after the provided key, by appending a 0
\* byte
calc_range_start(start_after) ==
    IF start_after = None
    THEN [some |-> FALSE]
    ELSE [some |-> TRUE, v |-> to_be_bytes(start_after) \o <<0>>]

\* the key is inside the range whose minimum is Bound::ExclusiveRaw(start)
AfterExclusiveMin(key, start) ==
    ~start.some \/ LexLess(start.v, key)

\* read_bids_by_round: start is the min bound of the key range in both orders
read_bids_by_round(byRound, round, start_after, limit, order_by) ==
    LET lim == Min(IF limit = None THEN DEFAULT_LIMIT ELSE limit, MAX_LIMIT)
        start == calc_range_start(start_after)
        ids == {i \in RoundIds(byRound, round) : AfterExclusiveMin(U64Key(i), start)}
        asc == SortAsc(ids)
    IN Take(IF order_by = 2 THEN Reverse(asc) ELSE asc, lim)

count_number_bids_in_round(byRound, round) ==
    Cardinality(RoundIds(byRound, round))

\* faulty variant: a start in the past is let through
is_valid_duration_NoFuture(info, t) == info.start_time < info.end_time

is_valid_duration(info, t) == info.start_time < info.end_time /\ info.start_time >= t

\* faulty variant: the round is closed at its end_time already
opening_BeforeEnd(info, t) == info.start_time <= t /\ t < info.end_time

\* faulty variant: the end of the round is not looked at
opening_NoEnd(info, t) == info.start_time <= t

opening(info, t) == info.start_time <= t /\ t <= info.end_time

\* faulty variant: the round counts as finished at its end_time already
finished_AtEnd(info, t) == info.end_time <= t

finished(info, t) == info.end_time < t

----------------------------------------------------------------------------
(* helper.rs *)

\* into_cosmos_msg: a cw20 transfer for a token, a bank send for a native coin
into_cosmos_msg(asset_info, receiver, amount) ==
    IF asset_info.kind = "Token"
    THEN [msg |-> "Cw20Transfer", asset |-> asset_info.id,
          recipient |-> receiver, amount |-> amount]
    ELSE [msg |-> "BankSend", asset |-> asset_info.id,
          recipient |-> receiver, amount |-> amount]

\* the burn of the matched underlying amount
BurnMsg(asset_info, amount) ==
    IF asset_info.kind = "Token"
    THEN [msg |-> "Cw20Burn", asset |-> asset_info.id,
          recipient |-> "", amount |-> amount]
    ELSE [msg |-> "BankBurn", asset |-> asset_info.id,
          recipient |-> "", amount |-> amount]

----------------------------------------------------------------------------
(* bid.rs: process_calc_distribution_amount *)

\* total_bid_amount * exchange_rate * (1 + premium_rate), truncated twice
DesiredAmount(pool, exchange_rate) ==
    Uint128MulDecimal(Uint128MulDecimal(pool.total_bid_amount, exchange_rate),
                      DecimalOne + pool.premium_rate)

ActualAmount(desired_amount, distribution_amount) ==
    IF desired_amount <= distribution_amount
    THEN desired_amount
    ELSE distribution_amount

\* faulty variant: the ratio is taken the wrong way round
IndexSnapshot_Inverted(actual_amount, desired_amount) ==
    IF actual_amount = 0
    THEN DecimalZero
    ELSE DecimalFromRatio(desired_amount, actual_amount)

IndexSnapshot(actual_amount, desired_amount) ==
    DecimalFromRatio(actual_amount, desired_amount)

\* faulty variant: the ratio is taken the wrong way round
ReceivedPerToken_Inverted(actual_amount, total_bid_amount) ==
    IF actual_amount = 0
    THEN DecimalZero
    ELSE DecimalFromRatio(total_bid_amount, actual_amount)

ReceivedPerToken(actual_amount, total_bid_amount) ==
    DecimalFromRatio(actual_amount, total_bid_amount)

MatchedAmount(index_snapshot, total_bid_amount) ==
    Uint128MulDecimal(total_bid_amount, index_snapshot)

\* faulty variant: the budget is not reduced by what the pool took
RemainingAmount_NotReduced(distribution_amount, actual_amount) ==
    distribution_amount

RemainingAmount(distribution_amount, actual_amount) ==
    distribution_amount - actual_amount

\* faulty variant: the loop goes on with an empty budget
BudgetExhausted_Never(distribution_amount) == FALSE

\* the loop stops once the budget is used up
BudgetExhausted(distribution_amount) == distribution_amount = 0

\* the call panics and returns nothing
CalcPanic(kind, bid_pools, distribution_amount, total_matched) ==
    [ok |-> FALSE, panic |-> kind, broke |-> 0,
     bid_pools |-> bid_pools,
     distribution_amount |-> distribution_amount,
     total_matched |-> total_matched]

\* The loop over bid_pools from position i on.  ok = FALSE is a panic: of
\* Decimal::from_ratio on a zero desired_amount ("DivideByZero"), or of an
\* operator whose result does not fit ("Overflow").  broke is the position
\* of the pool at which the loop left through `break`, 0 when it ran through.
RECURSIVE calc_loop(_, _, _, _, _)
calc_loop(bid_pools, i, distribution_amount, exchange_rate, total_matched) ==
    IF i > Len(bid_pools)
    THEN [ok |-> TRUE, panic |-> "", broke |-> 0,
          bid_pools |-> bid_pools,
          distribution_amount |-> distribution_amount,
          total_matched |-> total_matched]
    ELSE IF bid_pools[i].total_bid_amount = 0
    THEN calc_loop(bid_pools, i + 1, distribution_amount, exchange_rate, total_matched)
    ELSE
      LET pool == bid_pools[i]
          rate_amount == Uint128MulDecimal(pool.total_bid_amount, exchange_rate)
          premium_factor == DecimalOne + pool.premium_rate
          desired_amount == DesiredAmount(pool, exchange_rate)
          actual_amount == ActualAmount(desired_amount, distribution_amount)
      IN IF Overflow(rate_amount) \/ Overflow(premium_factor) \/ Overflow(desired_amount)
         THEN CalcPanic("Overflow", bid_pools, distribution_amount, total_matched)
         ELSE IF desired_amount = 0
         THEN CalcPanic("DivideByZero", bid_pools, distribution_amount, total_matched)
         ELSE
           LET index_snapshot == IndexSnapshot(actual_amount, desired_amount)
               received_per_token == ReceivedPerToken(actual_amount, pool.total_bid_amount)
               matched == total_matched + MatchedAmount(index_snapshot, pool.total_bid_amount)
               remaining == RemainingAmount(distribution_amount, actual_amount)
               updated == [bid_pools EXCEPT ![i] =
                              [@ EXCEPT !.index_snapshot = index_snapshot,
                                        !.received_per_token = received_per_token]]
           IN IF Overflow(received_per_token) \/ Overflow(matched)
              THEN CalcPanic("Overflow", bid_pools, distribution_amount, total_matched)
              ELSE IF BudgetExhausted(remaining)
              THEN [ok |-> TRUE, panic |-> "", broke |-> i,
                    bid_pools |-> updated,
                    distribution_amount |-> remaining,
                    total_matched |-> matched]
              ELSE calc_loop(updated, i + 1, remaining, exchange_rate, matched)

process_calc_distribution_amount(bid_pools, distribution_amount, exchange_rate) ==
    calc_loop(bid_pools, 1, distribution_amount, exchange_rate, 0)

----------------------------------------------------------------------------
(* bid.rs: the settlement loop of execute_distribute *)

\* index_snapshot[slot] and receiver_per_token[slot]: vectors of max_slot + 1
\* zeros, filled from the stored pools of slots 1..=max_slot
SlotIndexSnapshot(pools, cfg, round, slot) ==
    IF slot >= 1 /\ slot <= cfg.max_slot /\ <<round, slot>> \in DOMAIN pools
    THEN pools[<<round, slot>>].index_snapshot
    ELSE DecimalZero

SlotReceivedPerToken(pools, cfg, round, slot) ==
    IF slot >= 1 /\ slot <= cfg.max_slot /\ <<round, slot>> \in DOMAIN pools
    THEN pools[<<round, slot>>].received_per_token
    ELSE DecimalZero

\* faulty variant: the reward is the bid amount itself
AmountReceived_Whole(amount, received_per_token) == amount

AmountReceived(amount, received_per_token) ==
    Uint128MulDecimal(amount, received_per_token)

\* faulty variant: the matched part is refunded instead of the unmatched part
ResidueBid_Matched(amount, index_snapshot) ==
    Uint128MulDecimal(amount, index_snapshot)

ResidueBid(amount, index_snapshot) ==
    Uint128MulDecimal(amount, DecimalOne - index_snapshot)

\* faulty variant: a settled bid is not skipped
AlreadySettled_Never(b) == FALSE

\* the bid is skipped when it is already settled
AlreadySettled(b) == b.is_distributed

\* faulty variant: the amounts are written but the bid is not marked settled
SettledBid_FlagNotSet(b, amount_received, residue_bid) ==
    [b EXCEPT !.amount_received = amount_received,
              !.residue_bid = residue_bid]

SettledBid(b, amount_received, residue_bid) ==
    [b EXCEPT !.amount_received = amount_received,
              !.residue_bid = residue_bid,
              !.is_distributed = TRUE]

\* faulty variant: both transfers are emitted whatever the amounts
SettleMsgs_Always(cfg, b, amount_received, residue_bid) ==
    <<into_cosmos_msg(cfg.distribution_token, b.bidder, amount_received),
      into_cosmos_msg(cfg.underlying_token, b.bidder, residue_bid)>>

\* faulty variant: the transfers go to the owner instead of the bidder
SettleMsgs_ToOwner(cfg, b, amount_received, residue_bid) ==
    (IF amount_received > 0
     THEN <<into_cosmos_msg(cfg.distribution_token, cfg.owner, amount_received)>>
     ELSE <<>>)
    \o
    (IF residue_bid > 0
     THEN <<into_cosmos_msg(cfg.underlying_token, cfg.owner, residue_bid)>>
     ELSE <<>>)

\* reward first, then refund, each only when nonzero
SettleMsgs(cfg, b, amount_received, residue_bid) ==
    (IF amount_received > 0
     THEN <<into_cosmos_msg(cfg.distribution_token, b.bidder, amount_received)>>
     ELSE <<>>)
    \o
    (IF residue_bid > 0
     THEN <<into_cosmos_msg(cfg.underlying_token, b.bidder, residue_bid)>>
     ELSE <<>>)

\* The loop over bids_idx from position i on.  ok = FALSE is the panic of an
\* index past the end of the max_slot + 1 vectors, or of 1 - index_snapshot
\* underflowing.
RECURSIVE distribute_loop(_, _, _, _, _, _, _, _)
distribute_loop(bids_idx, i, bids, num, msgs, pools, cfg, round) ==
    IF i > Len(bids_idx)
    THEN [ok |-> TRUE, bid |-> bids, num_bids_distributed |-> num, msgs |-> msgs]
    ELSE
      LET b == bids[bids_idx[i]]
      IN IF AlreadySettled(b)
         THEN distribute_loop(bids_idx, i + 1, bids, num, msgs, pools, cfg, round)
         ELSE IF b.premium_slot > cfg.max_slot
                 \/ SlotIndexSnapshot(pools, cfg, round, b.premium_slot) > DecimalOne
         THEN [ok |-> FALSE, bid |-> bids, num_bids_distributed |-> num, msgs |-> msgs]
         ELSE
           LET amount_received ==
                   AmountReceived(b.amount,
                       SlotReceivedPerToken(pools, cfg, round, b.premium_slot))
               residue_bid ==
                   ResidueBid(b.amount,
                       SlotIndexSnapshot(pools, cfg, round, b.premium_slot))
           IN distribute_loop(bids_idx, i + 1,
                  [bids EXCEPT ![bids_idx[i]] = SettledBid(b, amount_received, residue_bid)],
                  num + 1,
                  msgs \o SettleMsgs(cfg, b, amount_received, residue_bid),
                  pools, cfg, round)

----------------------------------------------------------------------------
(* The storage of the contract as one value, and the outcome of a call *)

Storage ==
    [config |-> config,
     last_round_id |-> last_round_id,
     bidding_info |-> bidding_info,
     distribution_info |-> distribution_info,
     bid_pool |-> bid_pool,
     bid |-> bid,
     bid_idx |-> bid_idx,
     bids_by_round |-> bids_by_round,
     bids_by_user |-> bids_by_user]

\* Ok(Response) with the storage the call leaves
Success(st, action, msgs) == [err |-> Ok, st |-> st, action |-> action, msgs |-> msgs]

\* Err(..) or a panic: the storage is as before the call and nothing is emitted
Failure(st, action, err) == [err |-> err, st |-> st, action |-> action, msgs |-> <<>>]

----------------------------------------------------------------------------
(* contract.rs: instantiate *)

\* no direct call of process_calc_distribution_amount is under way
CalcIdle == [pc |-> "idle"]

PagerIdle == [pc |-> "idle"]

InitConfig ==
    [owner |-> OWNER,
     underlying_token |-> ORAIX,
     distribution_token |-> USDC,
     max_slot |-> MaxSlot,
     premium_rate_per_slot |-> Dec(1, 10),
     min_deposit_amount |-> 10]

InitStore ==
    /\ now = 0
    /\ config = InitConfig
    /\ last_round_id = 0
    /\ bidding_info = <<>>
    /\ distribution_info = <<>>
    /\ bid_pool = <<>>
    /\ bid = <<>>
    /\ bid_idx = 0
    /\ bids_by_round = {}
    /\ bids_by_user = <<>>

Init ==
    /\ InitStore
    /\ calc = CalcIdle
    /\ pager = PagerIdle

----------------------------------------------------------------------------
(* contract.rs: execute_update_config *)

\* max_slot is always given; premium_rate_per_slot is an Option, None leaving
\* the stored value.  The other fields of the message are not modelled.
execute_update_config(st, sender, max_slot, premium_rate_per_slot) ==
    IF sender # st.config.owner
    THEN Failure(st, "update_config", "Unauthorized")
    ELSE Success(
           [st EXCEPT
              !.config.max_slot = max_slot,
              !.config.premium_rate_per_slot =
                  IF premium_rate_per_slot = None THEN @ ELSE premium_rate_per_slot],
           "update_config", <<>>)

----------------------------------------------------------------------------
(* bid.rs: execute_create_new_round *)

\* faulty variant: the sender is not compared with the owner
NotOwner_Never(cfg, sender) == FALSE

\* config.owner != info.sender
NotOwner(cfg, sender) == cfg.owner # sender

execute_create_new_round(st, t, sender, start_time, end_time, total_distribution) ==
    LET last_round == st.last_round_id + 1
        info == [round |-> last_round,
                 start_time |-> start_time,
                 end_time |-> end_time,
                 total_bid_amount |-> 0,
                 total_bid_matched |-> 0]
        dist == [total_distribution |-> total_distribution,
                 exchange_rate |-> DecimalZero,
                 is_released |-> FALSE,
                 actual_distributed |-> 0,
                 num_bids_distributed |-> 0]
    IN IF NotOwner(st.config, sender)
       THEN Failure(st, "create_new_bidding_round", "Unauthorized")
       ELSE IF ~is_valid_duration(info, t)
       THEN Failure(st, "create_new_bidding_round", "InvalidBiddingTimeRange")
       ELSE Success(
              [st EXCEPT
                 !.last_round_id = last_round,
                 !.bidding_info =
                     [r \in (DOMAIN @) \cup {last_round} |->
                         IF r = last_round THEN info ELSE st.bidding_info[r]],
                 !.distribution_info =
                     [r \in (DOMAIN @) \cup {last_round} |->
                         IF r = last_round THEN dist ELSE st.distribution_info[r]]],
              "create_new_bidding_round", <<>>)

----------------------------------------------------------------------------
(* bid.rs: execute_submit_bid *)

\* store_bid: the record, the (round, bidder) index and the round index
StoreBid(bids, idx, b) ==
    [k \in (DOMAIN bids) \cup {idx} |-> IF k = idx THEN b ELSE bids[k]]

StoreBidByUser(byUser, idx, b) ==
    LET key == <<b.round, b.bidder>>
        idxs == IF key \in DOMAIN byUser THEN byUser[key] ELSE <<>>
    IN [k \in (DOMAIN byUser) \cup {key} |->
           IF k = key THEN Append(idxs, idx) ELSE byUser[k]]

execute_submit_bid(st, t, round, premium_slot, bidder, amount) ==
    IF st.config.min_deposit_amount > amount
    THEN Failure(st, "submit_bid", "MinimumDeposit")
    ELSE IF premium_slot < 1 \/ premium_slot > st.config.max_slot
    THEN Failure(st, "submit_bid", "PremiumSlotRange")
    ELSE IF round \notin DOMAIN st.bidding_info
    THEN Failure(st, "submit_bid", "NotFound")
    ELSE IF ~opening(st.bidding_info[round], t)
    THEN Failure(st, "submit_bid", "BidNotOpen")
    ELSE
      LET pool == read_or_create_bid_pool(st.bid_pool, st.config, round, premium_slot)
          idx == pop_bid_idx(st.bid_idx)
          b == [idx |-> idx,
                round |-> round,
                timestamp |-> t,
                premium_slot |-> premium_slot,
                bidder |-> bidder,
                amount |-> amount,
                residue_bid |-> amount,
                amount_received |-> 0,
                is_distributed |-> FALSE]
      IN Success(
           [st EXCEPT
              !.bidding_info[round].total_bid_amount = @ + amount,
              !.bid_pool = SavePool(@, <<round, premium_slot>>,
                               [pool EXCEPT !.total_bid_amount = @ + amount]),
              !.bid_idx = idx + 1,
              !.bid = StoreBid(@, idx, b),
              !.bids_by_user = StoreBidByUser(@, idx, b),
              !.bids_by_round = @ \cup {<<round, idx>>}],
           "submit_bid", <<>>)

----------------------------------------------------------------------------
(* bid.rs: execute_finalize_bidding_round_result *)

\* faulty variant: the release flag is not looked at
AlreadyReleased_Never(dist) == FALSE

\* the round is rejected when it has been released already
AlreadyReleased(dist) == dist.is_released

\* faulty variant: the map is replaced by the pools of this round
SavePools_OnlyRound(pools, round, bid_pools) ==
    [k \in {<<round, slot>> : slot \in DOMAIN bid_pools} |-> bid_pools[k[2]]]

\* every pool of bid_pools is saved under (round, slot)
SavePools(pools, round, bid_pools) ==
    [k \in (DOMAIN pools) \cup {<<round, slot>> : slot \in DOMAIN bid_pools} |->
        IF k[1] = round /\ k[2] \in DOMAIN bid_pools
        THEN bid_pools[k[2]]
        ELSE pools[k]]

\* the released DistributionInfo
ReleasedInfo(dist, exchange_rate, distribution_amount) ==
    [dist EXCEPT !.exchange_rate = exchange_rate,
                 !.is_released = TRUE,
                 !.actual_distributed = dist.total_distribution - distribution_amount]

\* faulty variant: the leftover is sent to the owner even when it is zero
FinalizeMsgs_AlwaysRefund(cfg, total_matched, distribution_amount) ==
    <<BurnMsg(cfg.underlying_token, total_matched),
      into_cosmos_msg(cfg.distribution_token, cfg.owner, distribution_amount)>>

\* the burn of total_matched, then the leftover budget back to the owner
FinalizeMsgs(cfg, total_matched, distribution_amount) ==
    <<BurnMsg(cfg.underlying_token, total_matched)>>
    \o
    (IF distribution_amount # 0
     THEN <<into_cosmos_msg(cfg.distribution_token, cfg.owner, distribution_amount)>>
     ELSE <<>>)

execute_finalize_bidding_round_result(st, t, sender, round, exchange_rate) ==
    IF NotOwner(st.config, sender)
    THEN Failure(st, "finalize_bidding_round_result", "Unauthorized")
    ELSE IF round \notin DOMAIN st.bidding_info
    THEN Failure(st, "finalize_bidding_round_result", "NotFound")
    ELSE IF ~finished(st.bidding_info[round], t)
    THEN Failure(st, "finalize_bidding_round_result", "BidNotEnded")
    ELSE IF AlreadyReleased(st.distribution_info[round])
    THEN Failure(st, "finalize_bidding_round_result", "Finalized")
    ELSE
      LET dist == st.distribution_info[round]
          res == process_calc_distribution_amount(
                      read_all_bid_pool(st.bid_pool, st.config, round),
                      dist.total_distribution, exchange_rate)
      IN IF ~res.ok
         THEN Failure(st, "finalize_bidding_round_result", "Panic")
         ELSE Success(
                [st EXCEPT
                   !.distribution_info[round] =
                       ReleasedInfo(dist, exchange_rate, res.distribution_amount),
                   !.bidding_info[round].total_bid_matched = res.total_matched,
                   !.bid_pool = SavePools(@, round, res.bid_pools)],
                "finalize_bidding_round_result",
                FinalizeMsgs(st.config, res.total_matched, res.distribution_amount))

----------------------------------------------------------------------------
(* bid.rs: execute_distribute *)

\* faulty variant: a round that is not released is accepted
NotYetReleased_Never(dist) == FALSE

\* the round's results must have been released
NotYetReleased(dist) == ~dist.is_released

execute_distribute(st, round, start_after, limit) ==
    IF round \notin DOMAIN st.distribution_info
    THEN Failure(st, "distribute", "NotFound")
    ELSE IF NotYetReleased(st.distribution_info[round])
    THEN Failure(st, "distribute", "BidNotEnded")
    ELSE
      LET bids_idx == read_bids_by_round(st.bids_by_round, round, start_after, limit, None)
          loop == distribute_loop(bids_idx, 1, st.bid,
                                  st.distribution_info[round].num_bids_distributed,
                                  <<>>, st.bid_pool, st.config, round)
      IN IF ~loop.ok
         THEN Failure(st, "distribute", "Panic")
         ELSE Success(
                [st EXCEPT
                   !.bid = loop.bid,
                   !.distribution_info[round].num_bids_distributed =
                       loop.num_bids_distributed],
                "distribute", loop.msgs)

----------------------------------------------------------------------------
(* contract.rs: the estimate queries.  A query reads the storage and       *)
(* returns a response or an error; it has no storage to write to.          *)

EstimateResponse(receive, residue_bid) ==
    [err |-> Ok, receive |-> receive, residue_bid |-> residue_bid]

EstimateError(err) == [err |-> err, receive |-> 0, residue_bid |-> 0]

\* the vectors index_snapshot and receiver_per_token: max_slot + 1 zeros,
\* overwritten at the slot of every pool
IndexSnapshotVector(bid_pools, max_slot) ==
    [s \in 0..max_slot |->
        IF \E i \in DOMAIN bid_pools : bid_pools[i].slot = s
        THEN bid_pools[CHOOSE i \in DOMAIN bid_pools : bid_pools[i].slot = s].index_snapshot
        ELSE DecimalZero]

ReceivedPerTokenVector(bid_pools, max_slot) ==
    [s \in 0..max_slot |->
        IF \E i \in DOMAIN bid_pools : bid_pools[i].slot = s
        THEN bid_pools[CHOOSE i \in DOMAIN bid_pools : bid_pools[i].slot = s].received_per_token
        ELSE DecimalZero]

\* the estimate for `amount` in `slot` from the pools the pass has filled;
\* a slot above max_slot is an index out of the vectors' bounds
EstimateOfSlot(res, max_slot, slot, amount) ==
    IF ~res.ok \/ slot > max_slot
    THEN EstimateError("Panic")
    ELSE EstimateResponse(
             Uint128MulDecimal(amount,
                 ReceivedPerTokenVector(res.bid_pools, max_slot)[slot]),
             Uint128MulDecimal(amount,
                 DecimalOne - IndexSnapshotVector(res.bid_pools, max_slot)[slot]))

query_estimate_amount_receive_of_bid(st, round, idx, exchange_rate) ==
    IF round \notin DOMAIN st.distribution_info \/ idx \notin DOMAIN st.bid
    THEN EstimateError("NotFound")
    ELSE EstimateOfSlot(
             process_calc_distribution_amount(
                 read_all_bid_pool(st.bid_pool, st.config, round),
                 st.distribution_info[round].total_distribution, exchange_rate),
             st.config.max_slot, st.bid[idx].premium_slot, st.bid[idx].amount)

\* faulty variant: the hypothetical deposit is not added to its pool
AddToSlot_NotAdded(bid_pools, slot, bid_amount) == bid_pools

\* the pool of the slot, if there is one, gets the hypothetical deposit
AddToSlot(bid_pools, slot, bid_amount) ==
    [i \in DOMAIN bid_pools |->
        IF bid_pools[i].slot = slot
        THEN [bid_pools[i] EXCEPT !.total_bid_amount = @ + bid_amount]
        ELSE bid_pools[i]]

query_estimate_amount_receive(st, round, slot, bid_amount, exchange_rate) ==
    IF round \notin DOMAIN st.distribution_info
    THEN EstimateError("NotFound")
    ELSE EstimateOfSlot(
             process_calc_distribution_amount(
                 AddToSlot(read_all_bid_pool(st.bid_pool, st.config, round),
                           slot, bid_amount),
                 st.distribution_info[round].total_distribution, exchange_rate),
             st.config.max_slot, slot, bid_amount)

----------------------------------------------------------------------------
(* The contract as a state machine.  A call that returns Ok commits the     *)
(* storage it leaves; a call that returns an error or panics commits        *)
(* nothing.  The Response of a call (its messages) is not stored: it is the *)
(* msgs field of the handler's outcome.                                     *)

Commit(res) ==
    IF res.err = Ok
    THEN /\ config' = res.st.config
         /\ last_round_id' = res.st.last_round_id
         /\ bidding_info' = res.st.bidding_info
         /\ distribution_info' = res.st.distribution_info
         /\ bid_pool' = res.st.bid_pool
         /\ bid' = res.st.bid
         /\ bid_idx' = res.st.bid_idx
         /\ bids_by_round' = res.st.bids_by_round
         /\ bids_by_user' = res.st.bids_by_user
    ELSE UNCHANGED store

\* a start time `back` seconds before t (block times are unsigned)
Earlier(t, back) == IF t >= back THEN t - back ELSE t

\* the block time advances between calls
Tick ==
    /\ now < MaxTime
    /\ now' = now + 1
    /\ UNCHANGED <<store, calc, pager>>

UpdateConfig(sender, max_slot) ==
    /\ Commit(execute_update_config(Storage, sender, max_slot, None))
    /\ UNCHANGED <<now, calc, pager>>

CreateNewRound(sender, start_time, end_time, total_distribution) ==
    /\ last_round_id < MaxRounds
    /\ Commit(execute_create_new_round(Storage, now, sender, start_time, end_time,
                                       total_distribution))
    /\ UNCHANGED <<now, calc, pager>>

SubmitBid(round, premium_slot, bidder, amount) ==
    /\ pop_bid_idx(bid_idx) <= MaxBids
    /\ Commit(execute_submit_bid(Storage, now, round, premium_slot, bidder, amount))
    /\ UNCHANGED <<now, calc, pager>>

FinalizeBiddingRoundResult(sender, round, exchange_rate) ==
    /\ Commit(execute_finalize_bidding_round_result(Storage, now, sender, round,
                                                    exchange_rate))
    /\ UNCHANGED <<now, calc, pager>>

Distribute(round, start_after, limit) ==
    /\ Commit(execute_distribute(Storage, round, start_after, limit))
    /\ UNCHANGED <<now, calc, pager>>

Next ==
    \/ Tick
    \/ \E sender \in Senders, max_slot \in MaxSlots :
          UpdateConfig(sender, max_slot)
    \/ \E sender \in Senders, back \in Backs, duration \in Durations,
          total_distribution \in Distributions :
          CreateNewRound(sender, Earlier(now, back), now + duration,
                         total_distribution)
    \/ \E round \in Rounds, premium_slot \in Slots, bidder \in Bidders,
          amount \in Amounts :
          SubmitBid(round, premium_slot, bidder, amount)
    \/ \E sender \in Senders, round \in Rounds, exchange_rate \in ExchangeRates :
          FinalizeBiddingRoundResult(sender, round, exchange_rate)
    \/ \E round \in Rounds, start_after \in Cursors, limit \in Limits :
          Distribute(round, start_after, limit)

Spec == Init /\ [][Next]_vars

----------------------------------------------------------------------------
(* The contract under an owner who also changes premium_rate_per_slot:      *)
(* rounds of one block each with deposits of the minimum amount, finalized  *)
(* at rate 1.                                                               *)

PremiumRates == {Dec(1, 10), Dec(2, 10)}

UpdatePremiumRate(sender, max_slot, premium_rate_per_slot) ==
    /\ Commit(execute_update_config(Storage, sender, max_slot, premium_rate_per_slot))
    /\ UNCHANGED <<now, calc, pager>>

NextConfig ==
    \/ Tick
    \/ \E max_slot \in MaxSlots, premium_rate_per_slot \in PremiumRates :
          UpdatePremiumRate(OWNER, max_slot, premium_rate_per_slot)
    \/ CreateNewRound(OWNER, now, now + 1, 17)
    \/ \E round \in Rounds, premium_slot \in Slots :
          SubmitBid(round, premium_slot, "addr000", InitConfig.min_deposit_amount)
    \/ \E round \in Rounds :
          FinalizeBiddingRoundResult(OWNER, round, DecimalOne)

ConfigSpec == Init /\ [][NextConfig]_vars

----------------------------------------------------------------------------
(* process_calc_distribution_amount called directly, as the unit tests do:  *)
(* the pools of one round in slot order, a budget and an exchange rate.     *)

CalcPools(totals) ==
    [slot \in 1..CalcSlots |->
        [NewBidPool(InitConfig, slot) EXCEPT !.total_bid_amount = totals[slot]]]

\* an amount of whole tokens: the unit tests count in millionths of a token,
\* the model in tenths, the coarsest unit in which their amounts stay whole
Tokens(n) == n * 10

\* the pool vectors the unit tests build by hand
TestPool(slot, total_bid_amount, premium_rate) ==
    [slot |-> slot,
     total_bid_amount |-> total_bid_amount,
     premium_rate |-> premium_rate,
     index_snapshot |-> DecimalZero,
     received_per_token |-> DecimalZero]

\* test_one_bid_pool_is_partially_matched: pools at slots 10 and 20
PartiallyMatchedPools ==
    <<TestPool(10, Tokens(1000), Dec(10, 100)),
      TestPool(20, Tokens(1000), Dec(20, 100))>>

PartiallyMatchedCall ==
    [pc |-> "call",
     bid_pools |-> PartiallyMatchedPools,
     distribution_amount |-> Tokens(20),
     exchange_rate |-> Dec(1, 100)]

\* test_full_amount_to_be_distributed and
\* test_all_bid_matched_but_distribution_amount_remains: 25 pools of 4000
FullPools ==
    [slot \in 1..25 |-> TestPool(slot, Tokens(4000), Dec(slot, 100))]

FullCall(budget) ==
    [pc |-> "call",
     bid_pools |-> FullPools,
     distribution_amount |-> Tokens(budget),
     exchange_rate |-> Dec(1, 100)]

TestCalls == {PartiallyMatchedCall, FullCall(1130), FullCall(1200)}

DrawnCalls ==
    {[pc |-> "call",
      bid_pools |-> CalcPools(totals),
      distribution_amount |-> budget,
      exchange_rate |-> rate] :
        totals \in [1..CalcSlots -> CalcTotals],
        budget \in CalcBudgets,
        rate \in CalcRates}

CalcCalls == DrawnCalls \cup TestCalls

InitCalc ==
    /\ InitStore
    /\ calc \in CalcCalls
    /\ pager = PagerIdle

\* the call returns; released is the DistributionInfo that
\* execute_finalize_bidding_round_result derives from the outcome
CalcReturn ==
    /\ calc.pc = "call"
    /\ LET res == process_calc_distribution_amount(
                      calc.bid_pools, calc.distribution_amount, calc.exchange_rate)
       IN calc' = [pc |-> IF res.ok THEN "done" ELSE "panic",
                   bid_pools |-> calc.bid_pools,
                   distribution_amount |-> calc.distribution_amount,
                   exchange_rate |-> calc.exchange_rate,
                   result |-> res,
                   released |->
                       ReleasedInfo([total_distribution |-> calc.distribution_amount,
                                     exchange_rate |-> DecimalZero,
                                     is_released |-> FALSE,
                                     actual_distributed |-> 0,
                                     num_bids_distributed |-> 0],
                                    calc.exchange_rate, res.distribution_amount)]
    /\ UNCHANGED <<now, store, pager>>

NextCalc == CalcReturn

CalcSpec == InitCalc /\ [][NextCalc]_vars

----------------------------------------------------------------------------
(* A caller paging through read_bids_by_round (the AllBidInRound query):     *)
(* it starts without cursor and passes the last id of a page as the next    *)
(* start_after, with the same limit and order, until a page is empty.       *)

\* the bid ids of the drawn indexes: small ones and ones around the first
\* carry into the second key byte
PageIds == {1, 2, 255, 256, 257}

PageRounds == {1, 2}

PageLimits == {None, 1, 2}

\* order_by: absent, 1 (ascending) or 2 (descending)
PageOrders == {None, 1, 2}

\* BIDS_BY_ROUND with every id of PageIds under round 1, under round 2 or
\* absent
PageStores ==
    {{<<f[i], i>> : i \in {j \in PageIds : f[j] # 0}} : f \in [PageIds -> 0..2]}

PagerCalls ==
    {[pc |-> "page",
      byRound |-> byRound,
      round |-> round,
      limit |-> limit,
      order_by |-> order_by,
      start_after |-> None,
      pages |-> <<>>] :
        byRound \in PageStores,
        round \in PageRounds,
        limit \in PageLimits,
        order_by \in PageOrders}

InitPage ==
    /\ InitStore
    /\ calc = CalcIdle
    /\ pager \in PagerCalls

\* one query; an empty page ends the paging
PageStep ==
    /\ pager.pc = "page"
    /\ LET page == read_bids_by_round(pager.byRound, pager.round,
                                      pager.start_after, pager.limit, pager.order_by)
       IN pager' = IF page = <<>>
                   THEN [pager EXCEPT !.pc = "done"]
                   ELSE [pager EXCEPT !.pages = @ \o page,
                                      !.start_after = page[Len(page)]]
    /\ UNCHANGED <<now, store, calc>>

NextPage == PageStep

PageSpec == InitPage /\ [][NextPage]_vars

----------------------------------------------------------------------------
(* Claims *)

\* the pools with a deposit, and among them those not fully funded
NonZero(pools) == {i \in DOMAIN pools : pools[i].total_bid_amount # 0}

NotFull(pools) == {i \in NonZero(pools) : pools[i].index_snapshot < DecimalOne}

Partial(pools) ==
    {i \in NonZero(pools) :
        0 < pools[i].index_snapshot /\ pools[i].index_snapshot < DecimalOne}

SingleBoundary(pools) ==
    /\ Cardinality(Partial(pools)) <= 1
    /\ \A i \in NonZero(pools) :
          (\A j \in NotFull(pools) : i < j) => pools[i].index_snapshot = DecimalOne
    /\ \A i \in DOMAIN pools :
          (\E j \in NotFull(pools) : j < i) =>
              /\ pools[i].index_snapshot = DecimalZero
              /\ pools[i].received_per_token = DecimalZero

\* C1: after process_calc_distribution_amount returns, among the pools with a
\* deposit taken in ascending slot order at most one has 0 < index_snapshot < 1,
\* every one before the first pool with index_snapshot < 1 has index_snapshot = 1,
\* and every pool after that first pool has index_snapshot = 0 and
\* received_per_token = 0.
C1_SingleBoundarySlot ==
    calc.pc = "done" => SingleBoundary(calc.result.bid_pools)

\* a full pool, then the boundary pool, then an unfunded pool, all with deposits
C1_Witness ==
    /\ calc.pc = "done"
    /\ NonZero(calc.result.bid_pools) = 1..CalcSlots
    /\ calc.result.bid_pools[1].index_snapshot = DecimalOne
    /\ Partial(calc.result.bid_pools) = {2}
    /\ calc.result.bid_pools[3].index_snapshot = DecimalZero

\* the rounds that have been released
Released == {r \in DOMAIN distribution_info : distribution_info[r].is_released}

\* the bids a call newly settles, from the bids before and after it
NewlySettled(before, after) ==
    {i \in DOMAIN before : ~before[i].is_distributed /\ after[i].is_distributed}

C3_SettlementAmounts ==
    [][ /\ \A i \in NewlySettled(bid, bid') :
              LET b == bid[i]
                  pool == bid_pool[<<b.round, b.premium_slot>>]
              IN bid'[i] =
                   [b EXCEPT
                      !.amount_received =
                          (b.amount * pool.received_per_token) \div DECIMAL_FRACTIONAL,
                      !.residue_bid =
                          (b.amount * (DECIMAL_FRACTIONAL - pool.index_snapshot))
                              \div DECIMAL_FRACTIONAL,
                      !.is_distributed = TRUE]
        /\ \A round \in DOMAIN distribution_info :
              distribution_info'[round].num_bids_distributed =
                  distribution_info[round].num_bids_distributed
                  + Cardinality({i \in NewlySettled(bid, bid') : bid[i].round = round})
      ]_vars

\* a bid of the boundary slot has been settled: a reward and a refund
C3_Witness ==
    \E i \in DOMAIN bid :
        /\ bid[i].is_distributed
        /\ bid[i].amount_received > 0
        /\ bid[i].residue_bid > 0
        /\ distribution_info[bid[i].round].num_bids_distributed >= 1

RECURSIVE SumTotals(_, _)
\* the sum of total_bid_amount over the pools i..Len(bid_pools)
SumTotals(bid_pools, i) ==
    IF i > Len(bid_pools)
    THEN 0
    ELSE bid_pools[i].total_bid_amount + SumTotals(bid_pools, i + 1)

\* C4: for the pools of any round, any exchange rate and the round's budget,
\* the allocation pass returns total_matched <= the sum of the pools'
\* total_bid_amount and a remaining budget between 0 and the budget (the
\* budget consumed never exceeds it); a released round has total_bid_matched
\* <= total_bid_amount and actual_distributed <= total_distribution.
C4_AllocationBounded ==
    \A round \in DOMAIN distribution_info :
        LET pools == read_all_bid_pool(bid_pool, config, round)
            dist == distribution_info[round]
            info == bidding_info[round]
        IN /\ \A rate \in CalcRates :
                LET res == process_calc_distribution_amount(
                               pools, dist.total_distribution, rate)
                IN res.ok =>
                     /\ res.total_matched <= SumTotals(pools, 1)
                     /\ res.distribution_amount >= 0
                     /\ res.distribution_amount <= dist.total_distribution
           /\ SumTotals(pools, 1) <= info.total_bid_amount
           /\ dist.is_released =>
                /\ info.total_bid_matched <= info.total_bid_amount
                /\ dist.actual_distributed >= 0
                /\ dist.actual_distributed <= dist.total_distribution

\* a released round whose budget ran out on a partly matched pool
C4_Witness ==
    \E round \in Released :
        /\ bidding_info[round].total_bid_matched > 0
        /\ bidding_info[round].total_bid_matched < bidding_info[round].total_bid_amount
        /\ distribution_info[round].actual_distributed =
               distribution_info[round].total_distribution

\* the round of bid b was released with exchange_rate * (1 + premium_rate of
\* b's slot) <= 1
RateWithPremiumAtMostOne(b) ==
    distribution_info[b.round].exchange_rate
        * (DECIMAL_FRACTIONAL + bid_pool[<<b.round, b.premium_slot>>].premium_rate)
    <= DECIMAL_FRACTIONAL * DECIMAL_FRACTIONAL

\* C5 (amended): in every reachable state every bid has residue_bid <= amount,
\* an unsettled bid has amount_received = 0 and residue_bid = amount, and a
\* settled bid has amount_received + residue_bid <= amount when its round was
\* released with exchange_rate * (1 + premium_rate of its slot) <= 1.
C5_ReceivedPlusResidueBounded ==
    \A i \in DOMAIN bid :
        LET b == bid[i]
        IN /\ b.residue_bid <= b.amount
           /\ ~b.is_distributed => b.amount_received = 0 /\ b.residue_bid = b.amount
           /\ b.is_distributed /\ RateWithPremiumAtMostOne(b) =>
                  b.amount_received + b.residue_bid <= b.amount

\* a bid settled with a reward, in a round released at a rate that keeps
\* exchange_rate * (1 + premium_rate) <= 1
C5_Witness ==
    \E i \in DOMAIN bid :
        /\ bid[i].is_distributed
        /\ bid[i].amount_received > 0
        /\ distribution_info[bid[i].round].exchange_rate > 0
        /\ RateWithPremiumAtMostOne(bid[i])

\* C5 as stated: amount_received + residue_bid <= amount for every bid in
\* every reachable state, for every exchange rate and premium
C5_AsStated ==
    \A i \in DOMAIN bid :
        bid[i].amount_received + bid[i].residue_bid <= bid[i].amount

\* C6: FinalizeBiddingRoundResult by the owner on a released round fails with
\* the "Finalized" error whatever the exchange rate, and by any sender fails;
\* the call leaves distribution_info, bidding_info and every pool unchanged
\* and emits no message.
C6_SecondFinalizeRejected ==
    \A round \in Released, rate \in CalcRates, sender \in Senders :
        LET res == execute_finalize_bidding_round_result(
                       Storage, now, sender, round, rate)
        IN /\ sender = OWNER => res.err = "Finalized"
           /\ res.err # Ok
           /\ res.st.distribution_info = distribution_info
           /\ res.st.bidding_info = bidding_info
           /\ res.st.bid_pool = bid_pool
           /\ res.msgs = <<>>

\* a round released with matched bids, on which a second call can be made
C6_Witness ==
    \E round \in Released :
        /\ bidding_info[round].total_bid_matched > 0
        /\ distribution_info[round].exchange_rate > 0
        /\ finished(bidding_info[round], now)

\* C7: in every step and for every round, a released round stays released
\* with the same total_distribution, exchange_rate and actual_distributed
\* (only num_bids_distributed may change), a round that is not released has
\* exchange_rate zero, and no round's DistributionInfo is removed.
C7_ReleaseOnce ==
    [][ \A round \in DOMAIN distribution_info :
            LET dist == distribution_info[round]
            IN /\ round \in DOMAIN distribution_info'
               /\ ~dist.is_released => dist.exchange_rate = DecimalZero
               /\ dist.is_released =>
                    /\ distribution_info'[round].is_released
                    /\ distribution_info'[round].total_distribution =
                           dist.total_distribution
                    /\ distribution_info'[round].exchange_rate = dist.exchange_rate
                    /\ distribution_info'[round].actual_distributed =
                           dist.actual_distributed
      ]_vars

\* a round released at a nonzero rate, some of whose bids were settled later
C7_Witness ==
    \E round \in Released :
        /\ distribution_info[round].exchange_rate > 0
        /\ distribution_info[round].actual_distributed > 0
        /\ distribution_info[round].num_bids_distributed >= 1

\* C8: in every step, every stored pool stays stored, and a pool of a released
\* round keeps its index_snapshot and received_per_token.
C8_PoolsFrozen ==
    [][ \A key \in DOMAIN bid_pool :
            /\ key \in DOMAIN bid_pool'
            /\ key[1] \in Released =>
                 /\ bid_pool'[key].index_snapshot = bid_pool[key].index_snapshot
                 /\ bid_pool'[key].received_per_token =
                        bid_pool[key].received_per_token
      ]_vars

\* a released round with a matched pool, while a later round has bids
C8_Witness ==
    \E key \in DOMAIN bid_pool :
        /\ key[1] \in Released
        /\ bid_pool[key].index_snapshot > 0
        /\ bid_pool[key].received_per_token > 0
        /\ \E later \in DOMAIN bid_pool :
              /\ later[1] > key[1]
              /\ bid_pool[later].total_bid_amount > 0

\* C9: in every step and for every bid, a settled bid does not change at all,
\* and a bid that is not settled after the step did not change in the step:
\* amount_received and residue_bid change only in the step that sets
\* is_distributed.
C9_SettledOnce ==
    [][ \A i \in DOMAIN bid :
            /\ i \in DOMAIN bid'
            /\ bid[i].is_distributed => bid'[i] = bid[i]
            /\ ~bid'[i].is_distributed => bid'[i] = bid[i]
      ]_vars

\* a settled bid whose amounts differ from those it was stored with
C9_Witness ==
    \E i \in DOMAIN bid :
        /\ bid[i].is_distributed
        /\ bid[i].amount_received > 0
        /\ bid[i].residue_bid < bid[i].amount

\* C10: Distribute on a round that is not released fails with BidNotEnded for
\* every cursor and limit, emits no message and leaves the storage (bids,
\* pools, counters) unchanged.
C10_DistributeNeedsRelease ==
    \A round \in (DOMAIN distribution_info) \ Released,
       start_after \in Cursors, limit \in Limits :
        LET res == execute_distribute(Storage, round, start_after, limit)
        IN /\ res.err = "BidNotEnded"
           /\ res.msgs = <<>>
           /\ res.st = Storage

\* a round that is not released and has bids a page would visit
C10_Witness ==
    \E round \in (DOMAIN distribution_info) \ Released :
        /\ read_bids_by_round(bids_by_round, round, None, None, None) # <<>>
        /\ finished(bidding_info[round], now)

\* the elements of a sequence
Range(s) == {s[i] : i \in DOMAIN s}

\* C12: while a caller pages in ascending order (order_by absent or 1) with
\* next start_after = last returned id, the pages got so far are strictly
\* increasing ids of the round (none repeated, none of another round) with no
\* id of the round below the last one left out, and when the empty page is
\* returned they are exactly the ids of the round.
C12_AscendingPagingPartition ==
    (pager.pc \in {"page", "done"} /\ pager.order_by # 2) =>
        LET ids == RoundIds(pager.byRound, pager.round)
            pages == pager.pages
        IN /\ \A i \in 1..(Len(pages) - 1) : pages[i] < pages[i + 1]
           /\ Range(pages) \subseteq ids
           /\ \A id \in ids :
                 (pages # <<>> /\ id <= pages[Len(pages)]) => id \in Range(pages)
           /\ pager.pc = "done" => Range(pages) = ids

\* ascending paging, one id a page, finished over a round whose ids lie on
\* both sides of the carry, with ids of the other round in between
C12_Witness ==
    /\ pager.pc = "done"
    /\ pager.order_by # 2
    /\ pager.limit = 1
    /\ pager.pages = <<2, 255, 257>>
    /\ RoundIds(pager.byRound, 3 - pager.round) = {1, 256}

\* C13 as stated: in descending order (order_by = 2) a page asked with
\* start_after = c holds only ids of the round strictly smaller than c, in
\* decreasing order, and the pages chained by next start_after = last returned
\* id are, when the empty page is returned, every id of the round exactly once.
C13_DescendingPaging ==
    (pager.pc \in {"page", "done"} /\ pager.order_by = 2) =>
        LET ids == RoundIds(pager.byRound, pager.round)
            pages == pager.pages
            page == read_bids_by_round(pager.byRound, pager.round,
                                       pager.start_after, pager.limit, pager.order_by)
        IN /\ pager.start_after # None =>
                 \A i \in DOMAIN page : page[i] < pager.start_after
           /\ \A i \in 1..(Len(page) - 1) : page[i] > page[i + 1]
           /\ pager.pc = "done" =>
                 /\ Range(pages) = ids
                 /\ \A i \in 1..(Len(pages) - 1) : pages[i] > pages[i + 1]

\* what a transfer moves: the asset, the recipient and the amount
Transfer(asset_info, recipient, amount) ==
    [asset |-> asset_info.id, recipient |-> recipient, amount |-> amount]

\* the transfers among the emitted messages, in order
TransfersOf(msgs) ==
    [i \in DOMAIN msgs |->
        [asset |-> msgs[i].asset, recipient |-> msgs[i].recipient,
         amount |-> msgs[i].amount]]

RECURSIVE ExpectedTransfers(_, _, _)
\* for the settled bids ids[i..], in order: the reward if amount_received > 0,
\* then the refund if residue_bid > 0
ExpectedTransfers(ids, i, bids) ==
    IF i > Len(ids)
    THEN <<>>
    ELSE LET b == bids[ids[i]]
         IN (IF b.amount_received > 0
             THEN <<Transfer(config.distribution_token, b.bidder, b.amount_received)>>
             ELSE <<>>)
            \o (IF b.residue_bid > 0
                THEN <<Transfer(config.underlying_token, b.bidder, b.residue_bid)>>
                ELSE <<>>)
            \o ExpectedTransfers(ids, i + 1, bids)

\* every successful Distribute on the current storage emits, for the bids it
\* newly settles in ascending id order, one reward iff amount_received > 0 and
\* then one refund iff residue_bid > 0, all of them transfers, and nothing else
TransfersPerSettledBid ==
    \A round \in Released, start_after \in Cursors, limit \in Limits :
        LET res == execute_distribute(Storage, round, start_after, limit)
            new == SortAsc(NewlySettled(bid, res.st.bid))
        IN res.err = Ok =>
             /\ TransfersOf(res.msgs) = ExpectedTransfers(new, 1, res.st.bid)
             /\ \A i \in DOMAIN res.msgs :
                   res.msgs[i].msg \in {"Cw20Transfer", "BankSend"}

\* C11 (amended): for the bids a Distribute newly settles, in ascending id
\* order, exactly one transfer of amount_received in the distribution token is
\* emitted iff amount_received > 0 and then exactly one transfer of
\* residue_bid in the underlying token iff residue_bid > 0; so a settled bid
\* in a fully funded slot gets no refund, a bid in an unfunded slot gets only
\* a refund of its full amount, and a bid in the boundary slot gets the reward
\* and the refund that are nonzero after truncation.
C11_TransfersPerSettledBid ==
    /\ TransfersPerSettledBid
    /\ \A i \in DOMAIN bid :
          LET b == bid[i]
              pool == bid_pool[<<b.round, b.premium_slot>>]
          IN b.is_distributed =>
               /\ pool.index_snapshot = DecimalOne => b.residue_bid = 0
               /\ pool.index_snapshot = DecimalZero =>
                     b.amount_received = 0 /\ b.residue_bid = b.amount

\* a round with a settled bid of a fully funded slot (reward only) and an
\* unsettled bid of the boundary slot, which a further page will settle
C11_Witness ==
    \E round \in Released :
        \E i, j \in RoundIds(bids_by_round, round) :
            /\ bid[i].is_distributed
            /\ bid_pool[<<round, bid[i].premium_slot>>].index_snapshot = DecimalOne
            /\ bid[i].amount_received > 0
            /\ ~bid[j].is_distributed
            /\ bid_pool[<<round, bid[j].premium_slot>>].index_snapshot > DecimalZero
            /\ bid_pool[<<round, bid[j].premium_slot>>].index_snapshot < DecimalOne

\* C11 as stated: the transfers as above, and a settled bid of a fully funded
\* slot has a reward and no refund, one of an unfunded slot only the refund of
\* its full amount, one of the boundary slot both a reward and a refund
C11_AsStated ==
    /\ TransfersPerSettledBid
    /\ \A i \in DOMAIN bid :
          LET b == bid[i]
              pool == bid_pool[<<b.round, b.premium_slot>>]
          IN b.is_distributed =>
               /\ pool.index_snapshot = DecimalOne =>
                     b.amount_received > 0 /\ b.residue_bid = 0
               /\ pool.index_snapshot = DecimalZero =>
                     b.amount_received = 0 /\ b.residue_bid = b.amount
               /\ (pool.index_snapshot > DecimalZero
                     /\ pool.index_snapshot < DecimalOne) =>
                     b.amount_received > 0 /\ b.residue_bid > 0

\* C14: in every step the stored bids are those with ids 1..n, each holding
\* its own id, the counter is n + 1 once a bid was stored, and the round index
\* holds exactly every bid's (round, id); a step stores at most one new bid,
\* under id n + 1, and never changes the id, round, slot, bidder, amount or
\* timestamp of a stored bid; a step that stores no bid (a rejected SubmitBid,
\* any other call) leaves the counter alone.
C14_BidIdsGapFree ==
    [][ LET n == Cardinality(DOMAIN bid)
        IN /\ DOMAIN bid = 1..n
           /\ \A i \in DOMAIN bid : bid[i].idx = i
           /\ bid_idx = IF n = 0 THEN 0 ELSE n + 1
           /\ bids_by_round = {<<bid[i].round, i>> : i \in DOMAIN bid}
           /\ DOMAIN bid' \in {DOMAIN bid, (DOMAIN bid) \cup {n + 1}}
           /\ \A i \in DOMAIN bid :
                 /\ bid'[i].idx = i
                 /\ bid'[i].round = bid[i].round
                 /\ bid'[i].premium_slot = bid[i].premium_slot
                 /\ bid'[i].bidder = bid[i].bidder
                 /\ bid'[i].amount = bid[i].amount
                 /\ bid'[i].timestamp = bid[i].timestamp
           /\ DOMAIN bid' = DOMAIN bid => bid_idx' = bid_idx
      ]_vars

\* three bids stored, the second in another round than the first and third
C14_Witness ==
    /\ DOMAIN bid = 1..3
    /\ bid[1].round = bid[3].round
    /\ bid[2].round # bid[1].round
    /\ bid_idx = 4

RECURSIVE SumAmounts(_, _)
\* the sum of the amounts of the bids whose ids are in S
SumAmounts(bids, S) ==
    IF S = {}
    THEN 0
    ELSE LET i == CHOOSE x \in S : TRUE
         IN bids[i].amount + SumAmounts(bids, S \ {i})

RECURSIVE SumPoolTotals(_, _)
\* the sum of total_bid_amount over the stored pools whose keys are in K
SumPoolTotals(pools, K) ==
    IF K = {}
    THEN 0
    ELSE LET k == CHOOSE x \in K : TRUE
         IN pools[k].total_bid_amount + SumPoolTotals(pools, K \ {k})

\* C15: in every reachable state and for every round, total_bid_amount of the
\* BiddingInfo is the sum of total_bid_amount over the round's stored pools,
\* and every stored pool's total_bid_amount is the sum of the amounts of the
\* bids recorded for its (round, slot); every bid has a stored pool.
C15_TotalsAreSums ==
    /\ \A round \in DOMAIN bidding_info :
          /\ bidding_info[round].total_bid_amount =
                SumPoolTotals(bid_pool, {k \in DOMAIN bid_pool : k[1] = round})
          /\ bidding_info[round].total_bid_amount =
                SumAmounts(bid, RoundIds(bids_by_round, round))
    /\ \A key \in DOMAIN bid_pool :
          bid_pool[key].total_bid_amount =
              SumAmounts(bid, {i \in RoundIds(bids_by_round, key[1]) :
                                  bid[i].premium_slot = key[2]})
    /\ \A i \in DOMAIN bid : <<bid[i].round, bid[i].premium_slot>> \in DOMAIN bid_pool

\* a round with two bids in one slot and a bid in another
C15_Witness ==
    \E round \in DOMAIN bidding_info :
        \E k1, k2 \in DOMAIN bid_pool :
            /\ k1[1] = round /\ k2[1] = round /\ k1 # k2
            /\ bid_pool[k1].total_bid_amount = 20
            /\ bid_pool[k2].total_bid_amount = 10
            /\ bidding_info[round].total_bid_amount = 30

\* the conditions under which the claim lets a SubmitBid succeed
SubmitAllowed(round, premium_slot, amount) ==
    /\ amount >= config.min_deposit_amount
    /\ 1 <= premium_slot /\ premium_slot <= config.max_slot
    /\ round \in DOMAIN bidding_info
    /\ bidding_info[round].start_time <= now
    /\ now <= bidding_info[round].end_time

\* the error of a SubmitBid that is not allowed; a round that does not exist
\* is reported as roundMissing
SubmitError(round, premium_slot, amount, roundMissing) ==
    IF amount < config.min_deposit_amount THEN "MinimumDeposit"
    ELSE IF premium_slot < 1 \/ premium_slot > config.max_slot THEN "PremiumSlotRange"
    ELSE IF round \notin DOMAIN bidding_info THEN roundMissing
    ELSE "BidNotOpen"

\* every SubmitBid on the current storage succeeds iff it is allowed, and one
\* that is not allowed fails with SubmitError and leaves the whole storage
\* (counter, ledger, indexes, pools, round totals) unchanged
SubmitChecked(roundMissing) ==
    \A round \in Rounds, premium_slot \in Slots, bidder \in Bidders, amount \in Amounts :
        LET res == execute_submit_bid(Storage, now, round, premium_slot, bidder, amount)
        IN IF SubmitAllowed(round, premium_slot, amount)
           THEN res.err = Ok
           ELSE /\ res.err = SubmitError(round, premium_slot, amount, roundMissing)
                /\ res.st = Storage
                /\ res.msgs = <<>>

C17_OwnerOnly ==
    \A sender \in Senders :
        /\ \A back \in Backs, duration \in Durations,
              total_distribution \in Distributions :
              LET res == execute_create_new_round(Storage, now, sender,
                             Earlier(now, back), now + duration, total_distribution)
              IN /\ res.err = Ok => sender = config.owner
                 /\ sender # config.owner =>
                       /\ res.err = "Unauthorized"
                       /\ res.st = Storage
                       /\ res.msgs = <<>>
        /\ \A round \in Rounds, rate \in CalcRates :
              LET res == execute_finalize_bidding_round_result(
                             Storage, now, sender, round, rate)
              IN /\ res.err = Ok => sender = config.owner
                 /\ sender # config.owner =>
                       /\ res.err = "Unauthorized"
                       /\ res.st = Storage
                       /\ res.msgs = <<>>

\* a round with bids that has ended and is not released, and a round id that
\* is free: the owner could finalize and could create a round
C17_Witness ==
    /\ \E round \in (DOMAIN distribution_info) \ Released :
          /\ finished(bidding_info[round], now)
          /\ RoundIds(bids_by_round, round) # {}
    /\ last_round_id < MaxRounds

\* C18: FinalizeBiddingRoundResult by the owner at a block time <= end_time of
\* the round fails with BidNotEnded for every rate and leaves the storage
\* unchanged (the round unreleased, exchange_rate, actual_distributed,
\* total_bid_matched and the pools' ratios as they were); a released round has
\* end_time < the block time.
C18_FinalizeNeedsEnd ==
    \A round \in DOMAIN bidding_info :
        /\ now <= bidding_info[round].end_time =>
              /\ ~distribution_info[round].is_released
              /\ \A rate \in CalcRates :
                    LET res == execute_finalize_bidding_round_result(
                                   Storage, now, OWNER, round, rate)
                    IN /\ res.err = "BidNotEnded"
                       /\ res.st = Storage
                       /\ res.msgs = <<>>
        /\ distribution_info[round].is_released => bidding_info[round].end_time < now

\* a round with bids at its end_time exactly
C18_Witness ==
    \E round \in DOMAIN bidding_info :
        /\ now = bidding_info[round].end_time
        /\ bidding_info[round].total_bid_amount > 0

\* C19: in every reachable state and for every round, num_bids_distributed is
\* the number of the round's bids with is_distributed = true and is at most
\* count_number_bids_in_round; the two are equal exactly when every bid of the
\* round is settled.
C19_CounterCountsSettled ==
    \A round \in DOMAIN distribution_info :
        LET ids == RoundIds(bids_by_round, round)
            settled == {i \in ids : bid[i].is_distributed}
            num == distribution_info[round].num_bids_distributed
        IN /\ num = Cardinality(settled)
           /\ num <= count_number_bids_in_round(bids_by_round, round)
           /\ (num = count_number_bids_in_round(bids_by_round, round)) <=> (settled = ids)

\* a round settled in part, and a round settled in full
C19_Witness ==
    \E r1, r2 \in Released :
        /\ distribution_info[r1].num_bids_distributed = 1
        /\ count_number_bids_in_round(bids_by_round, r1) = 2
        /\ distribution_info[r2].num_bids_distributed >= 1
        /\ distribution_info[r2].num_bids_distributed =
               count_number_bids_in_round(bids_by_round, r2)

RECURSIVE SettleChain(_, _, _, _)
\* the storage a caller ends with who repeats Distribute on the round from
\* start_after on, passing the last id of the page as the next start_after,
\* until the page is empty or the call fails (the same call then fails again)
SettleChain(st, round, start_after, limit) ==
    LET page == read_bids_by_round(st.bids_by_round, round, start_after, limit, None)
        res == execute_distribute(st, round, start_after, limit)
    IN IF page = <<>> \/ res.err # Ok
       THEN st
       ELSE SettleChain(res.st, round, page[Len(page)], limit)

\* C20 as stated: for every released round and every limit, the caller who
\* repeats Distribute from start_after = None with next start_after = last id
\* of the page ends in a storage where every bid of the round has
\* is_distributed = true and num_bids_distributed is the number of its bids.
C20_SettlementCompletes ==
    \A round \in Released, limit \in PageLimits :
        LET end == SettleChain(Storage, round, None, limit)
            ids == RoundIds(bids_by_round, round)
        IN /\ \A i \in ids : end.bid[i].is_distributed
           /\ end.distribution_info[round].num_bids_distributed = Cardinality(ids)

----------------------------------------------------------------------------
(* Claims about the allocation pass on hand-built pools *)

\* the call of process_calc_distribution_amount has returned or panicked
CalcOver == calc.pc \in {"done", "panic"}

PartiallyMatchedRun ==
    /\ CalcOver
    /\ calc.bid_pools = PartiallyMatchedPools
    /\ calc.distribution_amount = Tokens(20)
    /\ calc.exchange_rate = Dec(1, 100)

\* C21: with pools at slots 10 and 20 holding 1000 tokens each at premiums of
\* 10% and 20%, an exchange rate of 0.01 and a budget of 20 tokens, slot 10 is
\* fully matched (index_snapshot 1, received_per_token 11/1000), slot 20 is
\* the boundary slot (index_snapshot 3/4, received_per_token 9/1000), nothing
\* of the budget remains and total_matched is 1750 tokens.
C21_PartiallyMatchedTest ==
    PartiallyMatchedRun =>
        /\ calc.pc = "done"
        /\ calc.result.bid_pools =
               <<[PartiallyMatchedPools[1] EXCEPT
                     !.index_snapshot = DecimalOne,
                     !.received_per_token = Dec(11, 1000)],
                 [PartiallyMatchedPools[2] EXCEPT
                     !.index_snapshot = Dec(3, 4),
                     !.received_per_token = Dec(9, 1000)]>>
        /\ calc.result.distribution_amount = 0
        /\ calc.result.total_matched = Tokens(1750)

C21_Witness ==
    /\ PartiallyMatchedRun
    /\ calc.result.broke = 2

RECURSIVE SumDesired(_, _, _)
\* the sum of the desired amounts of the pools i..Len(bid_pools) with a deposit
SumDesired(bid_pools, exchange_rate, i) ==
    IF i > Len(bid_pools)
    THEN 0
    ELSE (IF bid_pools[i].total_bid_amount = 0
          THEN 0
          ELSE DesiredAmount(bid_pools[i], exchange_rate))
         + SumDesired(bid_pools, exchange_rate, i + 1)

\* the budget covers the desired amounts of all the pools with a deposit
FullyFunded ==
    calc.distribution_amount >= SumDesired(calc.bid_pools, calc.exchange_rate, 1)

\* C22: when the budget is at least the sum of the desired amounts of the
\* pools with a deposit, every such pool ends with index_snapshot 1,
\* total_matched is the sum of the pools' total_bid_amount and the remaining
\* budget is the budget minus the sum of the desired amounts; so with 25
\* pools of 4000 tokens at premiums of 1%..25% and exchange rate 0.01 a
\* budget of 1130 tokens leaves 0, one of 1200 leaves 70, and total_matched
\* is 100000 tokens.  (Calls that overflow are left aside.)
C22_FullyFunded ==
    (CalcOver /\ FullyFunded /\ calc.result.panic # "Overflow") =>
        /\ calc.pc = "done"
        /\ \A i \in NonZero(calc.result.bid_pools) :
              calc.result.bid_pools[i].index_snapshot = DecimalOne
        /\ calc.result.total_matched = SumTotals(calc.bid_pools, 1)
        /\ calc.result.distribution_amount =
              calc.distribution_amount
                  - SumDesired(calc.bid_pools, calc.exchange_rate, 1)
        /\ calc.bid_pools = FullPools =>
              /\ calc.result.total_matched = Tokens(100000)
              /\ calc.distribution_amount = Tokens(1130) =>
                    calc.result.distribution_amount = 0
              /\ calc.distribution_amount = Tokens(1200) =>
                    calc.result.distribution_amount = Tokens(70)

\* the part of C22 that holds: the same, for the calls in which every pool
\* with a deposit desires a nonzero amount
C22_FullyFundedNoDust ==
    (/\ CalcOver
     /\ FullyFunded
     /\ calc.result.panic # "Overflow"
     /\ \A i \in NonZero(calc.bid_pools) :
           DesiredAmount(calc.bid_pools[i], calc.exchange_rate) # 0)
    => C22_FullyFunded

\* C25: process_calc_distribution_amount never divides by zero: whatever the
\* pools and the exchange rate (0 and rates so small that a desired amount
\* truncates to 0 included) the call completes, and a pool with a deposit
\* whose desired amount is 0 ends with index_snapshot 0.  (Calls that
\* overflow are left aside.)
C25_NeverDividesByZero ==
    (CalcOver /\ calc.result.panic # "Overflow") =>
        /\ calc.pc = "done"
        /\ \A i \in NonZero(calc.bid_pools) :
              DesiredAmount(calc.bid_pools[i], calc.exchange_rate) = 0
                  => calc.result.bid_pools[i].index_snapshot = DecimalZero

----------------------------------------------------------------------------
(* Claims about overflow in the allocation pass *)

RECURSIVE PassOverflows(_, _, _, _, _)
\* some addition, multiplication or ratio of the pass over the pools
\* i..Len(bid_pools) has a result above Uint128Max, computed here from the
\* exact integers and not through the checked operators
PassOverflows(bid_pools, i, budget, rate, matched) ==
    IF i > Len(bid_pools)
    THEN FALSE
    ELSE IF bid_pools[i].total_bid_amount = 0
    THEN PassOverflows(bid_pools, i + 1, budget, rate, matched)
    ELSE
      LET total == bid_pools[i].total_bid_amount
          a == (total * rate) \div DECIMAL_FRACTIONAL
          f == DECIMAL_FRACTIONAL + bid_pools[i].premium_rate
          d == (a * f) \div DECIMAL_FRACTIONAL
          act == IF d <= budget THEN d ELSE budget
          r == (act * DECIMAL_FRACTIONAL) \div total
          m == matched
                 + (total * ((act * DECIMAL_FRACTIONAL) \div d)) \div DECIMAL_FRACTIONAL
      IN IF a > Uint128Max \/ f > Uint128Max
         THEN TRUE
         ELSE IF d > Uint128Max
         THEN TRUE
         ELSE IF d = 0
         THEN FALSE
         ELSE IF r > Uint128Max \/ m > Uint128Max
         THEN TRUE
         ELSE IF budget - act = 0
         THEN FALSE
         ELSE PassOverflows(bid_pools, i + 1, budget - act, rate, m)

RECURSIVE SubmitTotals(_, _, _)
\* the storage after one deposit of each pool's total, from slot i on
SubmitTotals(st, bid_pools, i) ==
    IF i > Len(bid_pools)
    THEN st
    ELSE IF bid_pools[i].total_bid_amount = 0
    THEN SubmitTotals(st, bid_pools, i + 1)
    ELSE SubmitTotals(
             execute_submit_bid(st, 0, 1, bid_pools[i].slot, "addr000",
                                bid_pools[i].total_bid_amount).st,
             bid_pools, i + 1)

\* the storage of a contract whose round 1 has the budget and the pools of
\* the call, brought about by the owner's UpdateConfig and CreateNewRound
\* and one SubmitBid per pool
RoundOfCall ==
    SubmitTotals(
        execute_create_new_round(
            execute_update_config(Storage, OWNER, Len(calc.bid_pools), None).st,
            0, OWNER, 0, 1, calc.distribution_amount).st,
        calc.bid_pools, 1)

\* the owner finalizes that round after its end with the rate of the call
FinalizeOfCall ==
    execute_finalize_bidding_round_result(RoundOfCall, 2, OWNER, 1, calc.exchange_rate)

\* the call is one of the drawn ones: pools as the contract creates them
DrawnCall ==
    /\ Len(calc.bid_pools) = CalcSlots
    /\ \A i \in 1..CalcSlots :
          /\ calc.bid_pools[i].slot = i
          /\ calc.bid_pools[i].premium_rate = SlotPremiumRate(InitConfig, i)

\* C26: if an addition or a multiplication of the allocation pass overflows
\* the amount or the decimal range, the call fails instead of wrapping or
\* saturating; FinalizeBiddingRoundResult on a round with these pools then
\* fails too, the round stays unreleased and its DistributionInfo, its
\* BiddingInfo and its pools (the whole storage) are as before the call.
C26_OverflowFails ==
    (/\ CalcOver
     /\ PassOverflows(calc.bid_pools, 1, calc.distribution_amount,
                      calc.exchange_rate, 0))
    =>
        /\ calc.pc = "panic"
        /\ calc.result.panic = "Overflow"
        /\ DrawnCall =>
              /\ read_all_bid_pool(RoundOfCall.bid_pool, RoundOfCall.config, 1)
                     = calc.bid_pools
              /\ RoundOfCall.distribution_info[1].total_distribution
                     = calc.distribution_amount
              /\ FinalizeOfCall.err = "Panic"
              /\ FinalizeOfCall.msgs = <<>>
              /\ FinalizeOfCall.st = RoundOfCall
              /\ ~FinalizeOfCall.st.distribution_info[1].is_released

\* an overflow at a pool that comes after a pool the pass has already
\* written, in a call on pools as the contract creates them
C26_Witness ==
    /\ CalcOver
    /\ DrawnCall
    /\ calc.result.panic = "Overflow"
    /\ calc.result.bid_pools # calc.bid_pools
    /\ FinalizeOfCall.err = "Panic"

----------------------------------------------------------------------------
(* Claims about the budget consumed and the rate per token *)

\* what the pass took from the budget
BudgetConsumed == calc.distribution_amount - calc.result.distribution_amount

\* the loop left through `break` with at least one slot not yet visited
StoppedEarly ==
    /\ calc.result.broke # 0
    /\ calc.result.broke < Len(calc.bid_pools)

\* C27 as stated: the budget consumed equals the original budget if and only
\* if the loop stopped on a zero remaining budget with at least one slot not
\* yet visited.
C27_AsStated ==
    calc.pc = "done" =>
        (BudgetConsumed = calc.distribution_amount <=> StoppedEarly)

\* C27: the budget consumed equals the original budget if and only if the
\* loop stopped on a zero remaining budget, at whatever slot (the last one
\* included), or the budget was zero and no pool had a deposit; when the
\* loop stopped with a slot not yet visited the whole budget was consumed.
C27_ConsumedAllIffStopped ==
    calc.pc = "done" =>
        /\ BudgetConsumed = calc.distribution_amount
              <=> \/ calc.result.broke # 0
                  \/ (calc.distribution_amount = 0 /\ NonZero(calc.bid_pools) = {})
        /\ StoppedEarly => BudgetConsumed = calc.distribution_amount
        /\ calc.result.broke # 0 =>
              /\ calc.result.broke \in NonZero(calc.bid_pools)
              /\ \A i \in NonZero(calc.bid_pools) :
                    i > calc.result.broke =>
                        calc.result.bid_pools[i] = calc.bid_pools[i]

\* the test's 25 pools with a budget of 1130 tokens: the budget runs out at
\* the last slot, with no slot left to visit
C27_Witness ==
    /\ calc.pc = "done"
    /\ calc.bid_pools = FullPools
    /\ calc.result.broke = 25
    /\ BudgetConsumed = Tokens(1130)

\* the pools the pass has funded in full
FullyFundedPools ==
    {i \in NonZero(calc.result.bid_pools) :
        calc.result.bid_pools[i].index_snapshot = DecimalOne}

\* (1 + premium_rate) * exchange_rate as a Decimal
PremiumTimesRate(pool) ==
    DecimalMul(DecimalOne + pool.premium_rate, calc.exchange_rate)

\* none of the products and ratios behind received_per_token is truncated
ExactProducts(pool) ==
    LET rate_amount == pool.total_bid_amount * calc.exchange_rate
        premium_factor == DecimalOne + pool.premium_rate
    IN /\ rate_amount % DECIMAL_FRACTIONAL = 0
       /\ ((rate_amount \div DECIMAL_FRACTIONAL) * premium_factor)
              % DECIMAL_FRACTIONAL = 0
       /\ (DesiredAmount(pool, calc.exchange_rate) * DECIMAL_FRACTIONAL)
              % pool.total_bid_amount = 0
       /\ (premium_factor * calc.exchange_rate) % DECIMAL_FRACTIONAL = 0

\* C28 as stated: every pool funded in full has
\* received_per_token = (1 + premium_rate) * exchange_rate.
C28_AsStated ==
    calc.pc = "done" =>
        \A i \in FullyFundedPools :
            calc.result.bid_pools[i].received_per_token
                = PremiumTimesRate(calc.bid_pools[i])

\* C28: every pool funded in full has received_per_token = desired amount /
\* total_bid_amount, the desired amount being total_bid_amount *
\* exchange_rate * (1 + premium_rate) truncated after each product; this is
\* at most (1 + premium_rate) * exchange_rate and equal to it when no product
\* or ratio is truncated.
C28_FullRateUpToTruncation ==
    calc.pc = "done" =>
        \A i \in FullyFundedPools :
            LET pool == calc.bid_pools[i]
                received_per_token == calc.result.bid_pools[i].received_per_token
            IN /\ received_per_token =
                      DecimalFromRatio(DesiredAmount(pool, calc.exchange_rate),
                                       pool.total_bid_amount)
               /\ received_per_token <= PremiumTimesRate(pool)
               /\ ExactProducts(pool) => received_per_token = PremiumTimesRate(pool)

\* two pools funded in full, one at exactly (1 + premium_rate) * exchange_rate
\* and one below it
C28_Witness ==
    /\ calc.pc = "done"
    /\ \E i, j \in FullyFundedPools :
          /\ ExactProducts(calc.bid_pools[i])
          /\ calc.bid_pools[i].premium_rate # DecimalZero
          /\ calc.result.bid_pools[i].received_per_token
                 = PremiumTimesRate(calc.bid_pools[i])
          /\ calc.result.bid_pools[j].received_per_token
                 < PremiumTimesRate(calc.bid_pools[j])

----------------------------------------------------------------------------
(* Claims about the outcome of FinalizeBiddingRoundResult *)

\* the owner finalizes the round now with the rate
FinalizeNow(round, rate) ==
    execute_finalize_bidding_round_result(Storage, now, OWNER, round, rate)

\* the allocation pass on the stored pools of the round
PassOfRound(round, rate) ==
    process_calc_distribution_amount(
        read_all_bid_pool(bid_pool, config, round),
        distribution_info[round].total_distribution, rate)

Burns(msgs) == {i \in DOMAIN msgs : msgs[i].msg \in {"Cw20Burn", "BankBurn"}}

\* C23: a successful FinalizeBiddingRoundResult stores total_bid_matched =
\* total_matched and actual_distributed = total_distribution - leftover (so
\* actual_distributed + leftover = total_distribution), emits exactly one
\* burn, of total_matched in the underlying token, and emits a transfer of
\* the leftover in the distribution token to the owner if and only if the
\* leftover is nonzero.
C23_FinalizeOutcome ==
    \A round \in DOMAIN bidding_info, rate \in CalcRates :
        LET fin == FinalizeNow(round, rate)
            pass == PassOfRound(round, rate)
            total_matched == pass.total_matched
            leftover == pass.distribution_amount
            total_distribution == distribution_info[round].total_distribution
            stored == fin.st.distribution_info[round]
        IN fin.err = Ok =>
             /\ fin.st.bidding_info[round].total_bid_matched = total_matched
             /\ stored.actual_distributed = total_distribution - leftover
             /\ stored.actual_distributed + leftover = total_distribution
             /\ stored.total_distribution = total_distribution
             /\ Burns(fin.msgs) = {1}
             /\ fin.msgs[1] = BurnMsg(config.underlying_token, total_matched)
             /\ Len(fin.msgs) = (IF leftover # 0 THEN 2 ELSE 1)
             /\ leftover # 0 =>
                   fin.msgs[2] = into_cosmos_msg(config.distribution_token,
                                                 config.owner, leftover)

\* an ended round that one rate finalizes with a leftover and another rate
\* finalizes without
C23_Witness ==
    \E round \in DOMAIN bidding_info :
        \E rate1, rate2 \in CalcRates :
            /\ FinalizeNow(round, rate1).err = Ok
            /\ FinalizeNow(round, rate2).err = Ok
            /\ PassOfRound(round, rate1).total_matched > 0
            /\ PassOfRound(round, rate1).distribution_amount > 0
            /\ PassOfRound(round, rate2).distribution_amount = 0

----------------------------------------------------------------------------
(* Claims about the estimate queries *)

\* the id of the bid that a successful SubmitBid has added
SubmittedIdx(res) == CHOOSE i \in DOMAIN res.st.bid : i \notin DOMAIN bid

\* C24: for every round, slot, amount and rate for which SubmitBid of the
\* amount to the slot succeeds now, EstimateAmountReceive(round, slot, amount,
\* rate) asked before the deposit returns what EstimateAmountReceiveOfBid(
\* round, idx, rate) returns after it for the bid idx that the deposit made;
\* the queries return a response only and write nothing.
C24_EstimatesAgree ==
    \A round \in Rounds, slot \in Slots, amount \in Amounts, rate \in ExchangeRates :
        LET sub == execute_submit_bid(Storage, now, round, slot, "addr000", amount)
        IN sub.err = Ok =>
             query_estimate_amount_receive(Storage, round, slot, amount, rate)
               = query_estimate_amount_receive_of_bid(
                     sub.st, round, SubmittedIdx(sub), rate)

\* an open round with a deposit, where a further deposit to the same slot is
\* estimated to be matched in part
C24_Witness ==
    \E round \in DOMAIN bidding_info, slot \in Slots, amount \in Amounts,
       rate \in ExchangeRates :
        LET est == query_estimate_amount_receive(Storage, round, slot, amount, rate)
        IN /\ execute_submit_bid(Storage, now, round, slot, "addr000", amount).err = Ok
           /\ <<round, slot>> \in DOMAIN bid_pool
           /\ est.err = Ok
           /\ est.receive > 0
           /\ est.residue_bid > 0

----------------------------------------------------------------------------
(* Claims about the window of a round and about its creation *)

\* block times, up to one past the last time the model reaches
Times == 0..(MaxTime + 1)

\* C29: at every block time t a stored round accepts an otherwise valid
\* deposit exactly when start_time <= t <= end_time (t = end_time
\* included), and passes the time check of FinalizeBiddingRoundResult exactly
\* when t > end_time, where a round not yet released is then finalized
\* unless the allocation pass panics; at no time are a deposit and the
\* finalization both accepted.
C29_OpenThenFinalizable ==
    \A round \in DOMAIN bidding_info, t \in Times, rate \in ExchangeRates :
        LET info == bidding_info[round]
            sub == execute_submit_bid(Storage, t, round, 1, "addr000",
                                      config.min_deposit_amount)
            fin == execute_finalize_bidding_round_result(Storage, t, OWNER, round, rate)
        IN /\ config.max_slot >= 1 =>
                 /\ sub.err = Ok <=> (info.start_time <= t /\ t <= info.end_time)
                 /\ sub.err # Ok => sub.err = "BidNotOpen"
                 /\ t = info.end_time => sub.err = Ok
           /\ fin.err # "BidNotEnded" <=> t > info.end_time
           /\ ~distribution_info[round].is_released =>
                 (fin.err \in {Ok, "Panic"} <=> t > info.end_time)
           /\ ~(sub.err = Ok /\ fin.err = Ok)

\* a deposit made at the end_time of its round, in a round that is finalized
\* later
C29_Witness ==
    \E i \in DOMAIN bid :
        /\ bid[i].timestamp = bidding_info[bid[i].round].end_time
        /\ distribution_info[bid[i].round].is_released

\* C30: CreateNewRound by the owner succeeds only if start_time < end_time
\* and start_time >= the block time, and is rejected with
\* InvalidBiddingTimeRange otherwise, leaving LAST_ROUND_ID and the whole
\* storage unchanged; a success stores under the id LAST_ROUND_ID + 1 a round
\* with zero totals, zero exchange rate and is_released = false and leaves
\* every existing round as it was; the ids of the stored rounds are
\* 1..LAST_ROUND_ID, so the k-th success gets id k.
C30_CreateNewRound ==
    /\ DOMAIN bidding_info = 1..last_round_id
    /\ DOMAIN distribution_info = 1..last_round_id
    /\ \A round \in DOMAIN bidding_info : bidding_info[round].round = round
    /\ \A start_time \in Times, end_time \in Times, total \in Distributions :
          LET res == execute_create_new_round(Storage, now, OWNER, start_time,
                                              end_time, total)
              id == last_round_id + 1
          IN /\ res.err = Ok <=> (start_time < end_time /\ start_time >= now)
             /\ res.err # Ok =>
                   /\ res.err = "InvalidBiddingTimeRange"
                   /\ res.st = Storage
             /\ res.err = Ok =>
                   /\ res.st.last_round_id = id
                   /\ DOMAIN res.st.bidding_info = (DOMAIN bidding_info) \cup {id}
                   /\ DOMAIN res.st.distribution_info
                          = (DOMAIN distribution_info) \cup {id}
                   /\ res.st.bidding_info[id] =
                          [round |-> id,
                           start_time |-> start_time,
                           end_time |-> end_time,
                           total_bid_amount |-> 0,
                           total_bid_matched |-> 0]
                   /\ res.st.distribution_info[id] =
                          [total_distribution |-> total,
                           exchange_rate |-> DecimalZero,
                           is_released |-> FALSE,
                           actual_distributed |-> 0,
                           num_bids_distributed |-> 0]
                   /\ \A round \in DOMAIN bidding_info :
                         /\ res.st.bidding_info[round] = bidding_info[round]
                         /\ res.st.distribution_info[round] = distribution_info[round]
                   /\ res.st = [Storage EXCEPT
                                   !.last_round_id = res.st.last_round_id,
                                   !.bidding_info = res.st.bidding_info,
                                   !.distribution_info = res.st.distribution_info]

\* a second round created after the first one took a deposit and was
\* released, at a time when a start in the past is on offer
C30_Witness ==
    /\ last_round_id = 2
    /\ now >= 1
    /\ bidding_info[1].total_bid_amount > 0
    /\ distribution_info[1].is_released
    /\ bidding_info[2].start_time > bidding_info[1].end_time
    /\ bidding_info[2].total_bid_amount = 0

----------------------------------------------------------------------------
(* Claims about the slot pools and about solvency *)

\* what read_all_bid_pool has to return for a slot without a stored pool
SynthesizedPool(slot) ==
    [slot |-> slot,
     total_bid_amount |-> 0,
     premium_rate |->
         (config.premium_rate_per_slot * (slot * DECIMAL_FRACTIONAL))
             \div DECIMAL_FRACTIONAL,
     index_snapshot |-> DecimalZero,
     received_per_token |-> DecimalZero]

ReadAllAsDescribed ==
    \A round \in DOMAIN bidding_info :
        LET bid_pools == read_all_bid_pool(bid_pool, config, round)
        IN /\ DOMAIN bid_pools = 1..config.max_slot
           /\ \A slot \in 1..config.max_slot :
                 /\ bid_pools[slot].slot = slot
                 /\ bid_pools[slot] =
                        IF <<round, slot>> \in DOMAIN bid_pool
                        THEN bid_pool[<<round, slot>>]
                        ELSE SynthesizedPool(slot)

SettledOf(round) ==
    {i \in DOMAIN bid : bid[i].round = round /\ bid[i].is_distributed}

RECURSIVE SumReceived(_)
\* the sum of amount_received over the bids whose ids are in S
SumReceived(S) ==
    IF S = {}
    THEN 0
    ELSE LET i == CHOOSE x \in S : TRUE
         IN bid[i].amount_received + SumReceived(S \ {i})

RECURSIVE SumResidue(_)
\* the sum of residue_bid over the bids whose ids are in S
SumResidue(S) ==
    IF S = {}
    THEN 0
    ELSE LET i == CHOOSE x \in S : TRUE
         IN bid[i].residue_bid + SumResidue(S \ {i})

\* C32: in every reachable state and for every released round, the sum of
\* amount_received over the round's settled bids is at most
\* actual_distributed, so the rewards paid plus the leftover returned to the
\* owner (total_distribution - actual_distributed) are at most
\* total_distribution.
C32_RewardSolvency ==
    \A round \in Released :
        LET dist == distribution_info[round]
            leftover == dist.total_distribution - dist.actual_distributed
        IN /\ SumReceived(SettledOf(round)) <= dist.actual_distributed
           /\ leftover >= 0
           /\ SumReceived(SettledOf(round)) + leftover <= dist.total_distribution

\* a released round with two settled bids that both got a reward
C32_Witness ==
    \E round \in Released :
        /\ distribution_info[round].actual_distributed > 0
        /\ \E i, j \in SettledOf(round) :
              /\ i # j
              /\ bid[i].amount_received > 0
              /\ bid[j].amount_received > 0

\* C33: in every reachable state and for every released round,
\* total_bid_matched (the amount burned) plus the sum of residue_bid over the
\* round's settled bids is at most the round's total_bid_amount.
C33_UnderlyingSolvency ==
    \A round \in Released :
        bidding_info[round].total_bid_matched + SumResidue(SettledOf(round))
            <= bidding_info[round].total_bid_amount

\* a released round matched in part, with two settled bids that got a refund
C33_Witness ==
    \E round \in Released :
        /\ bidding_info[round].total_bid_matched > 0
        /\ bidding_info[round].total_bid_matched < bidding_info[round].total_bid_amount
        /\ \E i, j \in SettledOf(round) :
              /\ i # j
              /\ bid[i].residue_bid > 0
              /\ bid[j].residue_bid > 0

\* C34: in every reachable state every stored pool has 0 <= index_snapshot <=
\* 1, and index_snapshot = 0 and received_per_token = 0 when its round is not
\* released; the allocation pass of an estimate query, at any rate, leaves
\* every pool with 0 <= index_snapshot <= 1 too, so 1 - index_snapshot in
\* Distribute and in the estimate queries does not underflow.
C34_IndexSnapshotInUnitRange ==
    /\ \A key \in DOMAIN bid_pool :
          /\ DecimalZero <= bid_pool[key].index_snapshot
          /\ bid_pool[key].index_snapshot <= DecimalOne
          /\ key[1] \notin Released =>
                /\ bid_pool[key].index_snapshot = DecimalZero
                /\ bid_pool[key].received_per_token = DecimalZero
    /\ \A round \in DOMAIN bidding_info, rate \in CalcRates :
          LET pass == PassOfRound(round, rate)
          IN pass.ok =>
               \A i \in DOMAIN pass.bid_pools :
                   /\ DecimalZero <= pass.bid_pools[i].index_snapshot
                   /\ pass.bid_pools[i].index_snapshot <= DecimalOne

\* a released round with a pool matched in part, next to a round that is not
\* released and has a deposit
C34_Witness ==
    \E key, other \in DOMAIN bid_pool :
        /\ key[1] \in Released
        /\ DecimalZero < bid_pool[key].index_snapshot
        /\ bid_pool[key].index_snapshot < DecimalOne
        /\ other[1] \notin Released
        /\ bid_pool[other].total_bid_amount > 0

----------------------------------------------------------------------------
(* Claims about released rounds and settled bids *)

\* the bids of a round
BidsOf(round) == {i \in DOMAIN bid : bid[i].round = round}

\* block times from now on
Later == now..(MaxTime + 1)

\* C35 as stated: once a round is released every SubmitBid to it, at any
\* later block time, is rejected with BidNotOpen.
C35_AsStated ==
    \A round \in Released, t \in Later, premium_slot \in Slots, amount \in Amounts :
        execute_submit_bid(Storage, t, round, premium_slot, "addr000", amount).err
            = "BidNotOpen"

\* every SubmitBid to a released round, now or later, is rejected and writes
\* nothing: with BidNotOpen when the amount and the slot pass their checks,
\* which come first, and with their errors otherwise
ReleasedRejectsBids ==
    \A round \in Released, t \in Later, premium_slot \in Slots, amount \in Amounts :
        LET res == execute_submit_bid(Storage, t, round, premium_slot, "addr000", amount)
        IN /\ res.err = (IF amount < config.min_deposit_amount
                         THEN "MinimumDeposit"
                         ELSE IF premium_slot < 1 \/ premium_slot > config.max_slot
                         THEN "PremiumSlotRange"
                         ELSE "BidNotOpen")
           /\ res.st = Storage

\* every recorded bid was made within the window of its round
BidsWithinWindow ==
    \A i \in DOMAIN bid :
        /\ bid[i].round \in DOMAIN bidding_info
        /\ bidding_info[bid[i].round].start_time <= bid[i].timestamp
        /\ bid[i].timestamp <= bidding_info[bid[i].round].end_time

\* C35: with block time non-decreasing, once a round is released every
\* SubmitBid to it is rejected (with BidNotOpen unless the minimum-deposit or
\* the slot-range check fails first), so in every step the round's set of
\* bids, its total_bid_amount and the total_bid_amount of each of its pools
\* stay as they are; every recorded bid has a timestamp within [start_time,
\* end_time] of its round.
C35_ReleasedRoundFrozen ==
    /\ [](ReleasedRejectsBids /\ BidsWithinWindow)
    /\ [][ /\ now' >= now
           /\ \A round \in Released :
                 /\ {i \in DOMAIN bid' : bid'[i].round = round} = BidsOf(round)
                 /\ \A i \in BidsOf(round) : bid'[i].amount = bid[i].amount
                 /\ bidding_info'[round].total_bid_amount
                        = bidding_info[round].total_bid_amount
                 /\ \A key \in DOMAIN bid_pool' :
                       key[1] = round =>
                           /\ key \in DOMAIN bid_pool
                           /\ bid_pool'[key].total_bid_amount
                                  = bid_pool[key].total_bid_amount
         ]_vars

\* a released round with a bid made at its end_time, while another round is
\* open and has a bid
C35_Witness ==
    \E round \in Released :
        /\ \E i \in BidsOf(round) : bid[i].timestamp = bidding_info[round].end_time
        /\ \E other \in DOMAIN bidding_info :
              /\ other # round
              /\ opening(bidding_info[other], now)
              /\ BidsOf(other) # {}

\* C36: in every reachable state a bid with is_distributed = true belongs to
\* a released round, and a bid with is_distributed = false has
\* amount_received = 0 and residue_bid = amount.
C36_SettledFlagConsistent ==
    \A i \in DOMAIN bid :
        /\ bid[i].is_distributed => bid[i].round \in Released
        /\ ~bid[i].is_distributed =>
              /\ bid[i].amount_received = 0
              /\ bid[i].residue_bid = bid[i].amount

\* a released round with a settled bid that got a reward and a bid not yet
\* settled
C36_Witness ==
    \E i, j \in DOMAIN bid :
        /\ bid[i].round = bid[j].round
        /\ bid[i].is_distributed
        /\ bid[i].amount_received > 0
        /\ bid[i].residue_bid < bid[i].amount
        /\ ~bid[j].is_distributed

\* C37: for every released round Distribute succeeds for every start_after
\* and limit, whatever came before, UpdateConfig calls that change max_slot
\* after bids were placed included.
C37_DistributeAlwaysSucceeds ==
    \A round \in Released, start_after \in Cursors, limit \in Limits :
        execute_distribute(Storage, round, start_after, limit).err = Ok

----------------------------------------------------------------------------
(* Claims about paging, recipients and the other rounds *)

\* how often m occurs among the messages
CountOf(msgs, m) == Cardinality({i \in DOMAIN msgs : msgs[i] = m})

\* the two sequences hold the same messages the same number of times
SameMultiset(msgs1, msgs2) ==
    \A m \in Range(msgs1) \cup Range(msgs2) : CountOf(msgs1, m) = CountOf(msgs2, m)

\* every bid of the round lies in a slot of the current vectors, so that
\* Distribute can settle it
Settleable(round) ==
    \A i \in BidsOf(round) : bid[i].premium_slot <= config.max_slot

\* a settled bid has the amounts that its amount and the stored ratios of
\* the pool of its slot give
SettledByFrozenRatios ==
    \A round \in Released :
        \A i \in SettledOf(round) :
            LET pool == bid_pool[<<round, bid[i].premium_slot>>]
            IN /\ bid[i].amount_received =
                      (bid[i].amount * pool.received_per_token) \div DECIMAL_FRACTIONAL
               /\ bid[i].residue_bid =
                      (bid[i].amount * (DECIMAL_FRACTIONAL - pool.index_snapshot))
                          \div DECIMAL_FRACTIONAL

\* a Distribute call with any cursor and limit followed by one call over the
\* whole round ends with the bids and the multiset of messages of the one
\* call over the whole round alone; as this holds in every reachable state,
\* it holds for every sequence of calls by induction on its length
PagingDoesNotMatter ==
    \A round \in Released :
        Settleable(round) =>
            LET whole == execute_distribute(Storage, round, None, None)
            IN /\ whole.err = Ok
               /\ \A i \in BidsOf(round) : whole.st.bid[i].is_distributed
               /\ \A start_after \in Cursors, limit \in Limits :
                     LET page == execute_distribute(Storage, round, start_after, limit)
                         rest == execute_distribute(page.st, round, None, None)
                     IN /\ page.err = Ok /\ rest.err = Ok
                        /\ rest.st.bid = whole.st.bid
                        /\ rest.st.distribution_info = whole.st.distribution_info
                        /\ SameMultiset(page.msgs \o rest.msgs, whole.msgs)

\* C38: the settlement of a released round does not depend on how it is
\* paged or interleaved: in every reachable state (after any Distribute
\* calls on this and other rounds and any SubmitBid on other rounds) every
\* settled bid has the amount_received and residue_bid given by its amount
\* and the stored ratios of its slot's pool, and from that state any
\* Distribute call followed by a call over the whole round leaves the same
\* bids and emits the same multiset of messages as the call over the whole
\* round alone.
C38_PagingIndependent ==
    SettledByFrozenRatios /\ PagingDoesNotMatter

\* a released round matched in part with two bids, one settled and one not,
\* while another round has a bid
C38_Witness ==
    \E round \in Released :
        /\ Settleable(round)
        /\ \E i, j \in BidsOf(round) :
              /\ bid[i].is_distributed
              /\ bid[i].amount_received > 0
              /\ bid[i].residue_bid > 0
              /\ ~bid[j].is_distributed
        /\ \E other \in DOMAIN bidding_info : other # round /\ BidsOf(other) # {}

\* the addresses a recorded bid may carry
Recipients == {"addr000", "addr001"}

\* the storage with the bidder of the bids of labels replaced as labels says
Relabelled(labels) ==
    [Storage EXCEPT !.bid =
        [i \in DOMAIN bid |->
            IF i \in DOMAIN labels THEN [bid[i] EXCEPT !.bidder = labels[i]] ELSE bid[i]]]

\* C39: Distribute takes no sender and checks none; whoever the recorded
\* bidders of the round are, the messages of a successful call are, for the
\* bids it settles in ascending order, the reward and then the refund
\* addressed to the bidder recorded on that bid, so that no message goes to
\* the owner or to the bidder of another bid.
C39_PaidToRecordedBidder ==
    \A round \in Released :
        \A labels \in [BidsOf(round) -> Recipients] :
            LET st == Relabelled(labels)
            IN \A start_after \in Cursors, limit \in Limits :
                  LET res == execute_distribute(st, round, start_after, limit)
                      new == NewlySettled(bid, res.st.bid)
                  IN res.err = Ok =>
                       /\ TransfersOf(res.msgs) = ExpectedTransfers(SortAsc(new), 1, res.st.bid)
                       /\ \A i \in DOMAIN res.msgs :
                             /\ res.msgs[i].recipient # OWNER
                             /\ res.msgs[i].recipient \in {labels[j] : j \in new}

\* a released round with two unsettled bids for which one call emits a reward
\* and a refund
C39_Witness ==
    \E round \in Released :
        LET res == execute_distribute(Storage, round, None, None)
        IN /\ res.err = Ok
           /\ Cardinality(NewlySettled(bid, res.st.bid)) >= 2
           /\ \E i, j \in DOMAIN res.msgs :
                 /\ res.msgs[i].asset = config.distribution_token.id
                 /\ res.msgs[j].asset = config.underlying_token.id

\* what the storage st holds for the round: its BiddingInfo, its
\* DistributionInfo, its slot pools, its bids and its BIDS_BY_ROUND keys
RoundData(st, round) ==
    [bidding_info |-> {st.bidding_info[r] : r \in (DOMAIN st.bidding_info) \cap {round}},
     distribution_info |->
         {st.distribution_info[r] : r \in (DOMAIN st.distribution_info) \cap {round}},
     bid_pool |-> {<<k, st.bid_pool[k]>> : k \in {p \in DOMAIN st.bid_pool : p[1] = round}},
     bid |-> {<<i, st.bid[i]>> : i \in {j \in DOMAIN st.bid : st.bid[j].round = round}},
     bids_by_round |-> {k \in st.bids_by_round : k[1] = round}]

\* the call left the data of every round but round as it was
OtherRoundsUntouched(res, round) ==
    \A other \in Rounds \ {round} : RoundData(res.st, other) = RoundData(Storage, other)

\* C40: SubmitBid, FinalizeBiddingRoundResult and Distribute for a round
\* leave the BiddingInfo, the DistributionInfo, the slot pools and the bids
\* of every other round unchanged, from every reachable state, whatever
\* their inputs and whether they succeed or not.
C40_OtherRoundsUnchanged ==
    \A round \in Rounds :
        /\ \A premium_slot \in Slots, amount \in Amounts :
              OtherRoundsUntouched(
                  execute_submit_bid(Storage, now, round, premium_slot, "addr000", amount),
                  round)
        /\ \A sender \in Senders, exchange_rate \in ExchangeRates :
              OtherRoundsUntouched(
                  execute_finalize_bidding_round_result(Storage, now, sender, round,
                                                        exchange_rate),
                  round)
        /\ \A start_after \in Cursors, limit \in Limits :
              OtherRoundsUntouched(execute_distribute(Storage, round, start_after, limit),
                                   round)

\* two rounds with bids in pools: one that can be finalized now with a
\* successful allocation and one released with a bid still to settle
C40_Witness ==
    \E round \in Rounds, other \in Released :
        /\ round # other
        /\ BidsOf(round) # {}
        /\ FinalizeNow(round, DecimalOne).err = Ok
        /\ \E i \in BidsOf(other) : ~bid[i].is_distributed
        /\ execute_distribute(Storage, other, None, None).err = Ok

====
